---- MODULE Spec2Model ----
(***************************************************************************)
(* Verification model of go-perun's two-party channel client.              *)
(*                                                                         *)
(*  - channel/machine.go : the channel pushdown automaton (phase,          *)
(*    stagingTX, currentTX, prevTXs, subs) and its operations.             *)
(*  - client responders  : the use-once ProposalResponder and              *)
(*    UpdateResponder with the protocol side that serves them.             *)
(*  - client channel     : the channel controller (machMtx, Update and   *)
(*    the exchange of the initial signatures).                             *)
(*  - peer registry      : Get, Register, authenticatedDial, Listen and    *)
(*    Close; registry.go is modelled from its documented behaviour and     *)
(*    its tests.                                                           *)
(*  - peer receiver      : the bounded queue of Receiver (Next, Put,       *)
(*    Close) and the selectable Mutex.                                     *)
(*  - channel connection : channelConn, its peer index map and the         *)
(*    messages it subscribes to; the client and its listeners.             *)
(*  - wire encoding      : Encode and Decode of the channel messages.      *)
(*  - two participants   : both sides of the exchange of the initial       *)
(*    signatures and of Channel.Update, each with its own machine.         *)
(*                                                                         *)
(* Every operation is one action.  A call that fails is a step too: it     *)
(* records its error in ret and leaves the machine alone.                  *)
(***************************************************************************)
EXTENDS Integers, Sequences, FiniteSets, TLC

VARIABLES
    phase,      \* machine.phase
    stagingTX,  \* machine.stagingTX  (State, Sigs)
    currentTX,  \* machine.currentTX
    prevTXs,    \* machine.prevTXs
    subs,       \* machine.subs: set of <<phase, who, sink>>, one sink per <<phase, who>>
    notes,      \* the notifications the last machine call sends to sinks
    ret,        \* the last machine call: its name and the error it returned
    called,     \* responder.called (atomic flag)
    kind,       \* which responder this is: "proposal" or "update"
    cpc,        \* position of every user call on the responder
    cwhat,      \* what every user call is: "accept", "accept-nil" (an Accept
                \* without Participant) or "reject"
    errq,       \* responder.err, a go channel with buffer 1
    hpc,        \* position of the protocol side (handler)
    handed,     \* every value the protocol side took from accept / reject
    wire,       \* replies the protocol side sent to the remote peer
    proposal,   \* the incoming ChannelProposal the protocol side handles
    creason,    \* the reason every Reject call was given
    cres,       \* the error every user call returned ("none": not returned)
    machMtx,    \* Channel.machMtx of every channel: its holder, or "free"
    upc,        \* position of every goroutine calling Channel.Update
    ucall,      \* the channel and the ChannelUpdate of every such call
    ures,       \* the error every Channel.Update call returned
    sent,       \* the messages the channel's conn has sent
    kpc,        \* position of the client opening the channel (init, initial
                \* exchange, funding)
    kres,       \* the error Channel.init / initExchangeSigsAndEnable returned
    xsend,      \* the goroutine sending the initial signature, and its result
    rpeers,     \* Registry.peers: the list of peers, by the name of each
    pobj,       \* the peer objects ever made: address, connection, closed
    rclosed,    \* whether the registry was closed
    rlisten,    \* the listeners passed to Listen
    rdialer,    \* the registry's dialer: "open" or "closed"
    gets,       \* the calls of Registry.Get
    dials,      \* the dial that belongs to each placeholder peer
    ins,        \* the inbound connections and what became of them
    hooks,      \* how often the subscription hook was invoked for each peer
    rret,       \* the error the last Registry.Close returned
    msgs,       \* Receiver.msgs: the queued msgTuples, a go channel
    rcvClosed,  \* whether the receiver's Closer was closed
    npc,        \* position of the consumer in Receiver.Next
    nctx,       \* the context of the consumer's Next call
    nret,       \* what the last Next call returned
    ppc,        \* position of every dispatching peer in Receiver.Put
    nput,       \* how many messages every peer has passed to Put
    lastTaken,  \* the number of the last message of every peer Next returned
    locked,     \* Mutex.locked: nil, or the length of the channel
    mpc,        \* position of every caller of the mutex
    mctx,       \* the context of every TryLock call
    mres,       \* what the last call of every caller returned
    holder,     \* the caller whose Lock or TryLock filled Mutex.locked
    msync,      \* the callers that ran initOnce or received from Mutex.locked
    gaddrs,     \* the participant addresses a channel is set up for
    gown,       \* Client.id.Address()
    gpc,        \* how far the set-up of the channel's connection is
    gpeers,     \* the peer list getPeers returned
    gmap,       \* channelConn.peerIdx
    grecv,      \* the msgTuples queued in the channel connection's receiver
    gret,       \* what the last channelConn.recv returned
    cclosed,    \* whether the client's Closer was closed
    clisten,    \* the listeners passed to Client.Listen
    cret,       \* the error the last Client.Close returned
    wmsg,       \* the wire message that is encoded
    wbytes,     \* the bytes Encode wrote
    wout,       \* the message Decode read from the bytes, or its error
    wpc,        \* how far the message is: "new", "encoded", "decoded"
    dmach,      \* the machine of each of the two participants of one channel
    dpc,        \* position of each participant's call on its Channel
    dres,       \* the error each participant's call returned
    dcall,      \* the ChannelUpdate each participant's Update was called with
    dsend,      \* each participant's goroutine sending the initial signature
    dwire,      \* the messages on the link to each participant
    dq          \* the messages queued in each participant's receiver

machineVars   == <<phase, stagingTX, currentTX, prevTXs, subs, notes, ret>>
responderVars == <<called, kind, cpc, cwhat, errq, hpc, handed, wire,
                   proposal, creason, cres>>
channelVars   == <<machMtx, upc, ucall, ures, sent, kpc, kres, xsend>>
registryVars  == <<rpeers, pobj, rclosed, rlisten, rdialer, gets, dials, ins,
                   hooks, rret>>
receiverVars  == <<msgs, rcvClosed, npc, nctx, nret, ppc, nput, lastTaken>>
mutexVars     == <<locked, mpc, mctx, mres, holder, msync>>
connVars      == <<gaddrs, gown, gpc, gpeers, gmap, grecv, gret>>
clientVars    == <<cclosed, clisten, cret>>
codecVars     == <<wmsg, wbytes, wout, wpc>>
duoVars       == <<dmach, dpc, dres, dcall, dsend, dwire, dq>>
vars          == <<machineVars, responderVars, channelVars, registryVars,
                   receiverVars, mutexVars, connVars, clientVars, codecVars,
                   duoVars>>

\* What a machine operation leaves alone whoever calls it (the caller, a
\* step of the channel controller or a direct call, adds what it leaves
\* alone of the controller), and what a responder step leaves alone.  A
\* registry operation is called by the client or directly: the caller adds
\* what it leaves alone of the client.
notMachine   == <<responderVars, registryVars, receiverVars, mutexVars, connVars,
                  clientVars, codecVars, duoVars>>
notResponder == <<machineVars, channelVars, registryVars, receiverVars, mutexVars,
                  connVars, clientVars, codecVars, duoVars>>
notRegistry  == <<machineVars, responderVars, channelVars, receiverVars, mutexVars,
                  connVars, codecVars, duoVars>>
notReceiver  == <<machineVars, responderVars, channelVars, registryVars, mutexVars,
                  connVars, clientVars, codecVars, duoVars>>
notMutex     == <<machineVars, responderVars, channelVars, registryVars,
                  receiverVars, connVars, clientVars, codecVars, duoVars>>
notConn      == <<machineVars, responderVars, channelVars, registryVars,
                  receiverVars, mutexVars, clientVars, codecVars, duoVars>>
notCodec     == <<machineVars, responderVars, channelVars, registryVars,
                  receiverVars, mutexVars, connVars, clientVars, duoVars>>
notDuo       == <<machineVars, responderVars, channelVars, registryVars,
                  receiverVars, mutexVars, connVars, clientVars, codecVars>>

---------------------------------------------------------------------------
(* Bounds of the model *)

\* Highest state version an Update may propose.
MaxVersion == 2
\* How many messages the first peer, and every other peer, passes to Put.
MaxPuts == 17
MaxOtherPuts == 1
\* Longest participant list a channel connection is set up for.
MaxParts == 3
\* Highest balance of one participant in one asset.
MaxBal == 1
\* Number of subscriptions at a time.
MaxSubs == 2
\* Number of user calls made on one responder.
MaxCalls == 2
\* How many messages wait in the receiver of a channel connection.
MaxQueued == 1

---------------------------------------------------------------------------
(* Values *)

\* The nil pointer / nil slice element.
Nil == [nil |-> TRUE]

\* No error.
NoErr == "nil"
PhaseTransitionError == "PhaseTransitionError"
StateTransitionError == "StateTransitionError"
OtherError == "error"
\* The two plain errors of AddSig, told apart by their message.
SigPresentError == "error: signature already present"
InvalidSigError == "error: invalid signature"
Panic == "panic"

InitActing  == "InitActing"
InitSigning == "InitSigning"
Funding     == "Funding"
Acting      == "Acting"
Signing     == "Signing"
Final       == "Final"
Settled     == "Settled"

Phases == {InitActing, InitSigning, Funding, Acting, Signing, Final, Settled}

signingPhases == {InitSigning, Signing}

\* Params of the modelled channel: two participants, one app, one asset.
Parts  == <<"alice", "bob">>
AppDef == "app"
ChID   == "id"
Assets == <<"asset">>
\* The account the machine signs with.
Acc    == "alice"

\* machine.N()
N == Len(Parts)

NumAssets == Len(Assets)

RECURSIVE IndexFrom(_, _, _)
IndexFrom(addrs, a, i) ==
    IF i > Len(addrs) THEN 0
    ELSE IF addrs[i] = a THEN i
    ELSE IndexFrom(addrs, a, i + 1)

\* wallet.IndexOfAddr, 1-based; 0 stands for "not found" (-1 in the code).
IndexOfAddr(addrs, a) == IndexFrom(addrs, a, 1)

\* machine.idx as newMachine computes it.
Idx == IndexOfAddr(Parts, Acc)

\* Transaction{}: no state, nil signature slice.
EmptyTx == [State |-> Nil, Sigs |-> <<>>]

---------------------------------------------------------------------------
(* Allocations *)

RECURSIVE SumSeq(_)
SumSeq(s) == IF s = <<>> THEN 0 ELSE Head(s) + SumSeq(Tail(s))

\* Sum of asset a over all participants and all locked sub-allocations.
AssetSum(alloc, a) ==
    SumSeq([i \in 1..Len(alloc.OfParts) |-> alloc.OfParts[i][a]])
    + SumSeq([k \in 1..Len(alloc.Locked) |-> alloc.Locked[k].Bals[a]])

\* Allocation.Valid: well-formed rows of non-negative balances.
AllocValid(alloc) ==
    /\ Len(alloc.OfParts) > 0
    /\ \A i \in 1..Len(alloc.OfParts) :
          /\ Len(alloc.OfParts[i]) = NumAssets
          /\ \A a \in 1..NumAssets : alloc.OfParts[i][a] >= 0
    /\ \A k \in 1..Len(alloc.Locked) :
          /\ Len(alloc.Locked[k].Bals) = NumAssets
          /\ \A a \in 1..NumAssets : alloc.Locked[k].Bals[a] >= 0

\* equalSum: the per-asset sums of the two allocations agree.
equalSum(b0, b1) == \A a \in 1..NumAssets : AssetSum(b0, a) = AssetSum(b1, a)

\* The balances callers pass in: a negative (invalid) one, none, the highest.
BalInputs == {-1, 0, MaxBal}

\* A row of balances, one per asset.
Rows == [1..NumAssets -> BalInputs]

LockedInputs == {<<>>, <<[ID |-> "child", Bals |-> [a \in 1..NumAssets |-> MaxBal]]>>}

\* The allocations the callers pass in.
AllocInputs == {[OfParts |-> p, Locked |-> l] : p \in [1..N -> Rows], l \in LockedInputs}

---------------------------------------------------------------------------
(* Signatures *)

\* Sign(acc, params, state): the signature of acc over state.
Sign(a, state) == [by |-> a, over |-> state]

\* A byte string that is no signature at all.
Malformed == [malformed |-> TRUE]

\* Verify(addr, params, state, sig): "ok", "bad", or "err" for a malformed signature.
Verify(addr, state, sig) ==
    IF sig = Malformed THEN "err"
    ELSE IF sig = Sign(addr, state) THEN "ok"
    ELSE "bad"

\* A state other than the staged one, for signatures over the wrong state.
OtherState(state) == [state EXCEPT !.Version = state.Version + 1]

\* The signatures a caller of AddSig may pass while state is staged.
SigInputs(state) ==
    {Sign(Parts[i], state) : i \in 1..N}
    \cup {Sign(Parts[i], OtherState(state)) : i \in 1..N}
    \cup {Malformed}

---------------------------------------------------------------------------
(* The machine: helpers *)

validPhaseTransitions ==
    { <<InitActing, InitSigning>>,
      <<InitSigning, Funding>>,
      <<Funding, Acting>>,
      <<Acting, Signing>>,
      <<Signing, Acting>>,
      <<Signing, Final>>,
      <<Final, Settled>> }

\* A mutant of expect: no check at all.
expectUnchecked(tr) == NoErr

\* machine.expect(tr): the error it returns.
expect(tr) ==
    IF phase # tr[1] THEN PhaseTransitionError
    ELSE IF <<phase, tr[2]>> \notin validPhaseTransitions THEN PhaseTransitionError
    ELSE NoErr

\* machine.notifySubs: one send of PhaseTransition{from, to} per subscriber
\* to the phase entered, on the subscriber's channel; taken tells whether
\* the send has completed.
notifySubs(from, to) ==
    {[who |-> s[2], sink |-> s[3], from |-> from, to |-> to, taken |-> FALSE] :
        s \in {t \in subs : t[1] = to}}

\* A mutant of setPhase: the subscribers are notified before the phase is set.
setPhaseNotifyFirst(p) ==
    /\ phase' = p
    /\ notes' = notifySubs(phase, phase)

\* machine.setPhase(p)
setPhase(p) ==
    /\ phase' = p
    /\ notes' = notifySubs(phase, p)

\* machine.setStaging(phase, state)
setStaging(p, state) ==
    /\ stagingTX' = [State |-> state, Sigs |-> [i \in 1..N |-> Nil]]
    /\ setPhase(p)

\* A call that returns r (an error, a panic, a memoized value) and leaves the
\* machine as it is.
ReturnOnly(r) ==
    /\ ret' = r
    /\ notes' = {}
    /\ UNCHANGED <<phase, stagingTX, currentTX, prevTXs, subs, notMachine>>

\* A mutant of validTransition: the version check is missing.
validTransitionNoVersion(to) ==
    IF to.ID # ChID THEN OtherError
    ELSE IF to.App # AppDef THEN OtherError
    ELSE IF currentTX.State = Nil THEN Panic
    ELSE IF currentTX.State.IsFinal THEN StateTransitionError
    ELSE IF ~AllocValid(to.Allocation) THEN StateTransitionError
    ELSE IF ~equalSum(currentTX.State.Allocation, to.Allocation) THEN StateTransitionError
    ELSE NoErr

\* A mutant of validTransition: the sums are not compared.
validTransitionNoSum(to) ==
    IF to.ID # ChID THEN OtherError
    ELSE IF to.App # AppDef THEN OtherError
    ELSE IF currentTX.State = Nil THEN Panic
    ELSE IF currentTX.State.IsFinal THEN StateTransitionError
    ELSE IF currentTX.State.Version + 1 # to.Version THEN StateTransitionError
    ELSE IF ~AllocValid(to.Allocation) THEN StateTransitionError
    ELSE NoErr

\* machine.validTransition(to): the error it returns.
validTransition(to) ==
    IF to.ID # ChID THEN OtherError
    ELSE IF to.App # AppDef THEN OtherError
    ELSE IF currentTX.State = Nil THEN Panic
    ELSE IF currentTX.State.IsFinal THEN StateTransitionError
    ELSE IF currentTX.State.Version + 1 # to.Version THEN StateTransitionError
    ELSE IF ~AllocValid(to.Allocation) THEN StateTransitionError
    ELSE IF ~equalSum(currentTX.State.Allocation, to.Allocation) THEN StateTransitionError
    ELSE NoErr

\* newState(params, initBals, initData): the version-0 state, or Nil on error.
newState(initBals) ==
    IF Len(initBals.OfParts) # N \/ ~AllocValid(initBals) THEN Nil
    ELSE [ID |-> ChID, Version |-> 0, App |-> AppDef,
          Allocation |-> initBals, IsFinal |-> FALSE]

\* The states a caller of Update may propose: every version, allocation and
\* finality for this channel and app, and one state each of another channel
\* and another app.
StateInputs ==
    {[ID |-> ChID, Version |-> v, App |-> AppDef, Allocation |-> a, IsFinal |-> f] :
        v \in 0..MaxVersion, a \in AllocInputs, f \in BOOLEAN}

\* A state of another channel, and one of another app.
ForeignInputs(s) == {[s EXCEPT !.ID = "otherid"], [s EXCEPT !.App = "otherapp"]}

---------------------------------------------------------------------------
(* The machine: operations *)

\* The result of a call that succeeded and takes no arguments worth recording.
Ok(op) == [op |-> op, err |-> NoErr]

\* newMachine: the machine right after construction.
newMachine ==
    /\ phase = InitActing
    /\ stagingTX = EmptyTx
    /\ currentTX = EmptyTx
    /\ prevTXs = <<>>
    /\ subs = {}
    /\ notes = {}
    /\ ret = Ok("newMachine")

\* A mutant of Init: the machine goes on to Funding with the state staged.
InitToFunding(initBals) ==
    LET e == expect(<<InitActing, InitSigning>>)
        s == newState(initBals)
    IN  IF e # NoErr THEN ReturnOnly([op |-> "Init", err |-> e])
        ELSE IF s = Nil THEN ReturnOnly([op |-> "Init", err |-> OtherError])
        ELSE /\ setStaging(Funding, s)
             /\ ret' = Ok("Init")
             /\ UNCHANGED <<currentTX, prevTXs, subs, notMachine>>

\* StateMachine.Init(initBals, initData)
Init(initBals) ==
    LET e == expect(<<InitActing, InitSigning>>)
        s == newState(initBals)
    IN  IF e # NoErr THEN ReturnOnly([op |-> "Init", err |-> e])
        ELSE IF s = Nil THEN ReturnOnly([op |-> "Init", err |-> OtherError])
        ELSE /\ setStaging(InitSigning, s)
             /\ ret' = Ok("Init")
             /\ UNCHANGED <<currentTX, prevTXs, subs, notMachine>>

\* StateMachine.Update(stagingState, actor); appOk is the verdict of the
\* app's own ValidTransition on the proposed state.
Update(to, appOk) ==
    LET e == expect(<<Acting, Signing>>)
        v == validTransition(to)
    IN  IF e # NoErr THEN ReturnOnly([op |-> "Update", err |-> e])
        ELSE IF v # NoErr THEN ReturnOnly([op |-> "Update", err |-> v])
        ELSE IF ~appOk THEN ReturnOnly([op |-> "Update", err |-> StateTransitionError])
        ELSE /\ setStaging(Signing, to)
             /\ ret' = Ok("Update")
             /\ UNCHANGED <<currentTX, prevTXs, subs, notMachine>>

\* A mutant of Sig: the state is signed at every call.
SigAlwaysSigns(signOk) ==
    IF phase \notin signingPhases
    THEN ReturnOnly([op |-> "Sig", err |-> PhaseTransitionError, sig |-> Nil])
    ELSE IF signOk
    THEN /\ stagingTX' = [stagingTX EXCEPT !.Sigs[Idx] = Sign(Acc, stagingTX.State)]
         /\ ret' = [op |-> "Sig", err |-> NoErr, sig |-> Sign(Acc, stagingTX.State)]
         /\ notes' = {}
         /\ UNCHANGED <<phase, currentTX, prevTXs, subs, notMachine>>
    ELSE ReturnOnly([op |-> "Sig", err |-> OtherError, sig |-> Nil])

\* machine.Sig(); signOk tells whether the account's Sign succeeds.
Sig(signOk) ==
    IF phase \notin signingPhases
    THEN ReturnOnly([op |-> "Sig", err |-> PhaseTransitionError, sig |-> Nil])
    ELSE IF stagingTX.Sigs[Idx] = Nil
    THEN IF signOk
         THEN /\ stagingTX' = [stagingTX EXCEPT !.Sigs[Idx] = Sign(Acc, stagingTX.State)]
              /\ ret' = [op |-> "Sig", err |-> NoErr, sig |-> Sign(Acc, stagingTX.State)]
              /\ notes' = {}
              /\ UNCHANGED <<phase, currentTX, prevTXs, subs, notMachine>>
         ELSE ReturnOnly([op |-> "Sig", err |-> OtherError, sig |-> Nil])
    ELSE ReturnOnly([op |-> "Sig", err |-> NoErr, sig |-> stagingTX.Sigs[Idx]])

\* A mutant of AddSig: the signature is stored without being verified.
AddSigNoVerify(idx, sig) ==
    LET r(e) == [op |-> "AddSig", err |-> e]
    IN  IF phase \notin signingPhases THEN ReturnOnly(r(PhaseTransitionError))
        ELSE IF idx \notin 1..Len(stagingTX.Sigs) THEN ReturnOnly(r(Panic))
        ELSE IF stagingTX.Sigs[idx] # Nil THEN ReturnOnly(r(SigPresentError))
        ELSE /\ stagingTX' = [stagingTX EXCEPT !.Sigs[idx] = sig]
             /\ ret' = r(NoErr)
             /\ notes' = {}
             /\ UNCHANGED <<phase, currentTX, prevTXs, subs, notMachine>>

\* A mutant of AddSig: a filled slot is overwritten.
AddSigNoDuplicateCheck(idx, sig) ==
    LET r(e) == [op |-> "AddSig", err |-> e]
    IN  IF phase \notin signingPhases THEN ReturnOnly(r(PhaseTransitionError))
        ELSE IF idx \notin 1..Len(stagingTX.Sigs) THEN ReturnOnly(r(Panic))
        ELSE IF Verify(Parts[idx], stagingTX.State, sig) = "err" THEN ReturnOnly(r(OtherError))
        ELSE IF Verify(Parts[idx], stagingTX.State, sig) = "bad" THEN ReturnOnly(r(InvalidSigError))
        ELSE /\ stagingTX' = [stagingTX EXCEPT !.Sigs[idx] = sig]
             /\ ret' = r(NoErr)
             /\ notes' = {}
             /\ UNCHANGED <<phase, currentTX, prevTXs, subs, notMachine>>

\* machine.AddSig(idx, sig)
AddSig(idx, sig) ==
    LET r(e) == [op |-> "AddSig", err |-> e]
    IN  IF phase \notin signingPhases THEN ReturnOnly(r(PhaseTransitionError))
        ELSE IF idx \notin 1..Len(stagingTX.Sigs) THEN ReturnOnly(r(Panic))
        ELSE IF stagingTX.Sigs[idx] # Nil THEN ReturnOnly(r(SigPresentError))
        ELSE IF Verify(Parts[idx], stagingTX.State, sig) = "err" THEN ReturnOnly(r(OtherError))
        ELSE IF Verify(Parts[idx], stagingTX.State, sig) = "bad" THEN ReturnOnly(r(InvalidSigError))
        ELSE /\ stagingTX' = [stagingTX EXCEPT !.Sigs[idx] = sig]
             /\ ret' = r(NoErr)
             /\ notes' = {}
             /\ UNCHANGED <<phase, currentTX, prevTXs, subs, notMachine>>

\* A mutant of DiscardUpdate: the staging transaction is not cleared.
DiscardUpdateKeepsStaging ==
    LET e == expect(<<Signing, Acting>>)
    IN  IF e # NoErr THEN ReturnOnly([op |-> "DiscardUpdate", err |-> e])
        ELSE /\ setPhase(Acting)
             /\ ret' = Ok("DiscardUpdate")
             /\ UNCHANGED <<stagingTX, currentTX, prevTXs, subs, notMachine>>

\* machine.DiscardUpdate()
DiscardUpdate ==
    LET e == expect(<<Signing, Acting>>)
    IN  IF e # NoErr THEN ReturnOnly([op |-> "DiscardUpdate", err |-> e])
        ELSE /\ stagingTX' = EmptyTx
             /\ setPhase(Acting)
             /\ ret' = Ok("DiscardUpdate")
             /\ UNCHANGED <<currentTX, prevTXs, subs, notMachine>>

\* The result of an Enable call for the transition expected.
EnableRet(expected, e) == [op |-> "Enable", tr |-> expected, err |-> e]

\* A mutant of enableStaged: missing signatures are not looked for.
enableStagedNoSigCheck(expected) ==
    LET e == expect(expected)
    IN  IF e # NoErr THEN ReturnOnly(EnableRet(expected, e))
        ELSE IF stagingTX.State = Nil THEN ReturnOnly(EnableRet(expected, Panic))
        ELSE IF (expected[2] = Final) # stagingTX.State.IsFinal
        THEN ReturnOnly(EnableRet(expected, PhaseTransitionError))
        ELSE /\ prevTXs' = Append(prevTXs, currentTX)
             /\ currentTX' = stagingTX
             /\ stagingTX' = EmptyTx
             /\ setPhase(expected[2])
             /\ ret' = EnableRet(expected, NoErr)
             /\ UNCHANGED <<subs, notMachine>>

\* A mutant of enableStaged: the replaced transaction is not kept.
enableStagedNoPush(expected) ==
    LET e == expect(expected)
    IN  IF e # NoErr THEN ReturnOnly(EnableRet(expected, e))
        ELSE IF stagingTX.State = Nil THEN ReturnOnly(EnableRet(expected, Panic))
        ELSE IF (expected[2] = Final) # stagingTX.State.IsFinal
        THEN ReturnOnly(EnableRet(expected, PhaseTransitionError))
        ELSE IF \E i \in 1..Len(stagingTX.Sigs) : stagingTX.Sigs[i] = Nil
        THEN ReturnOnly(EnableRet(expected, PhaseTransitionError))
        ELSE /\ prevTXs' = prevTXs
             /\ currentTX' = stagingTX
             /\ stagingTX' = EmptyTx
             /\ setPhase(expected[2])
             /\ ret' = EnableRet(expected, NoErr)
             /\ UNCHANGED <<subs, notMachine>>

\* A mutant of enableStaged: the finality of the staged state is not
\* compared with the target phase.
enableStagedAnyFinality(expected) ==
    LET e == expect(expected)
    IN  IF e # NoErr THEN ReturnOnly(EnableRet(expected, e))
        ELSE IF stagingTX.State = Nil THEN ReturnOnly(EnableRet(expected, Panic))
        ELSE IF \E i \in 1..Len(stagingTX.Sigs) : stagingTX.Sigs[i] = Nil
        THEN ReturnOnly(EnableRet(expected, PhaseTransitionError))
        ELSE /\ prevTXs' = Append(prevTXs, currentTX)
             /\ currentTX' = stagingTX
             /\ stagingTX' = EmptyTx
             /\ setPhase(expected[2])
             /\ ret' = EnableRet(expected, NoErr)
             /\ UNCHANGED <<subs, notMachine>>

\* machine.enableStaged(expected)
enableStaged(expected) ==
    LET e == expect(expected)
    IN  IF e # NoErr THEN ReturnOnly(EnableRet(expected, e))
        ELSE IF stagingTX.State = Nil THEN ReturnOnly(EnableRet(expected, Panic))
        ELSE IF (expected[2] = Final) # stagingTX.State.IsFinal
        THEN ReturnOnly(EnableRet(expected, PhaseTransitionError))
        ELSE IF \E i \in 1..Len(stagingTX.Sigs) : stagingTX.Sigs[i] = Nil
        THEN ReturnOnly(EnableRet(expected, PhaseTransitionError))
        ELSE /\ prevTXs' = Append(prevTXs, currentTX)
             /\ currentTX' = stagingTX
             /\ stagingTX' = EmptyTx
             /\ setPhase(expected[2])
             /\ ret' = EnableRet(expected, NoErr)
             /\ UNCHANGED <<subs, notMachine>>

\* machine.EnableInit()
EnableInit == enableStaged(<<InitSigning, Funding>>)

\* machine.EnableUpdate()
EnableUpdate == enableStaged(<<Signing, Acting>>)

\* machine.EnableFinal()
EnableFinal == enableStaged(<<Signing, Final>>)

\* A mutant of SetFunded: the phase is not checked.
SetFundedUnchecked ==
    /\ setPhase(Acting)
    /\ ret' = Ok("SetFunded")
    /\ UNCHANGED <<stagingTX, currentTX, prevTXs, subs, notMachine>>

\* machine.SetFunded()
SetFunded ==
    LET e == expect(<<Funding, Acting>>)
    IN  IF e # NoErr THEN ReturnOnly([op |-> "SetFunded", err |-> e])
        ELSE /\ setPhase(Acting)
             /\ ret' = Ok("SetFunded")
             /\ UNCHANGED <<stagingTX, currentTX, prevTXs, subs, notMachine>>

\* A mutant of SetSettled: the phase is not checked.
SetSettledUnchecked ==
    /\ setPhase(Settled)
    /\ ret' = Ok("SetSettled")
    /\ UNCHANGED <<stagingTX, currentTX, prevTXs, subs, notMachine>>

\* machine.SetSettled()
SetSettled ==
    LET e == expect(<<Final, Settled>>)
    IN  IF e # NoErr THEN ReturnOnly([op |-> "SetSettled", err |-> e])
        ELSE /\ setPhase(Settled)
             /\ ret' = Ok("SetSettled")
             /\ UNCHANGED <<stagingTX, currentTX, prevTXs, subs, notMachine>>

\* The phases, names and sinks that Subscribe is called with.
SubPhases == {Acting, Final}
Whos      == {"funder"}
Sinks     == {"sink1", "sink2"}

\* machine.Subscribe(phase, who, sub): a subscription of who to p is overwritten.
Subscribe(p, who, sink) ==
    /\ subs' = {t \in subs : ~(t[1] = p /\ t[2] = who)} \cup {<<p, who, sink>>}
    /\ Cardinality(subs') <= MaxSubs
    /\ ret' = Ok("Subscribe")
    /\ notes' = {}
    /\ UNCHANGED <<phase, stagingTX, currentTX, prevTXs, notMachine>>

\* Every send of the last call has completed: the call has returned.
Delivered == \A n \in notes : n.taken

\* A subscriber takes a PhaseTransition from its channel: the send of
\* notifySubs that waited for it completes.
Take(n) ==
    /\ n \in notes
    /\ ~n.taken
    /\ notes' = (notes \ {n}) \cup {[n EXCEPT !.taken = TRUE]}
    /\ UNCHANGED <<phase, stagingTX, currentTX, prevTXs, subs, ret, notMachine>>

\* The signatures AddSig is called with in the current state.
AddSigInputs ==
    IF stagingTX.State = Nil THEN {Malformed} ELSE SigInputs(stagingTX.State)

\* The states Update is called with in the current state, out of S.  Outside
\* Acting the call fails on the phase before it looks at the state, so one
\* state stands for all; in Acting the foreign states are variants of the
\* valid next states.
UpdateInputsFrom(S) ==
    IF phase # Acting \/ currentTX.State = Nil
    THEN {CHOOSE s \in S : TRUE}
    ELSE S \cup UNION {ForeignInputs(s) : s \in {t \in S :
                    /\ t.Version = currentTX.State.Version + 1
                    /\ t.Allocation = currentTX.State.Allocation}}

UpdateInputs == UpdateInputsFrom(StateInputs)

\* The allocations Init is called with in the current state, out of A (one
\* stands for all where Init fails on the phase).
InitInputsFrom(A) ==
    IF phase # InitActing THEN {CHOOSE a \in A : TRUE} ELSE A

InitInputs == InitInputsFrom(AllocInputs)

\* Inputs without locked sub-allocations, for the runs with subscribers.
PlainAllocInputs == {a \in AllocInputs : a.Locked = <<>>}

PlainStateInputs == {s \in StateInputs : s.Allocation.Locked = <<>>}

\* Inputs of one valid allocation, and the names that subscribe, for the
\* runs that follow the notifications.
NotifyAllocInputs == {CHOOSE a \in PlainAllocInputs : AllocValid(a)}
NotifyStateInputs == {s \in PlainStateInputs : s.Allocation \in NotifyAllocInputs}
NotifyWhos        == {"funder", "settler"}

---------------------------------------------------------------------------
(* The responders *)

Callers == 1..MaxCalls

\* The session ids and the reasons of a rejection that occur.
SessIDs == {"sess1", "sess2"}
Reasons == {"reason1", "reason2"}

\* No proposal: the responder is an UpdateResponder, or none is in use.
NoProposal == [SessID |-> "none", valid |-> FALSE]

\* The incoming proposals: proposal.SessID() and the verdict of proposal.Valid().
ProposalInputs == [SessID : SessIDs, valid : BOOLEAN]

\* No responder in use: the value of the responder's variables while the
\* machine is looked at on its own.
responderIdle ==
    /\ called = FALSE
    /\ kind = "none"
    /\ cpc = [c \in Callers |-> "idle"]
    /\ cwhat = [c \in Callers |-> "none"]
    /\ creason = [c \in Callers |-> "none"]
    /\ cres = [c \in Callers |-> "none"]
    /\ errq = <<>>
    /\ hpc = "none"
    /\ handed = <<>>
    /\ wire = <<>>
    /\ proposal = NoProposal

\* newProposalResponder / newUpdateResponder: the fields of a fresh
\* responder, nobody having called it.
freshResponder ==
    /\ called = FALSE
    /\ cpc = [c \in Callers |-> "idle"]
    /\ cwhat = [c \in Callers |-> "none"]
    /\ creason = [c \in Callers |-> "none"]
    /\ cres = [c \in Callers |-> "none"]
    /\ errq = <<>>
    /\ handed = <<>>
    /\ wire = <<>>

\* An update responder with the protocol side waiting in its select for the
\* user's answer (k = "update"); a proposal that has just been handed to
\* handleChannelProposal (k = "proposal").
newResponder(k) ==
    /\ freshResponder
    /\ kind = k
    /\ IF k = "proposal"
       THEN hpc = "start" /\ proposal \in ProposalInputs
       ELSE hpc = "select" /\ proposal = NoProposal

\* handleChannelProposal up to its select: an invalid proposal is dropped
\* without a responder and without a reply; for a valid one the responder
\* is made and the user's handler started.
handleChannelProposalStart ==
    /\ kind = "proposal"
    /\ hpc = "start"
    /\ hpc' = IF proposal.valid THEN "select" ELSE "dropped"
    /\ UNCHANGED <<called, kind, cpc, cwhat, errq, handed, wire, proposal,
                   creason, cres, notResponder>>

\* The user's handler holds a responder: it was made and handed to Handle.
responderMade == hpc \notin {"none", "start", "dropped"}

\* atomic.Bool.TrySet: sets the flag; tells whether this call was the one that set it.
TrySet == ~called

\* The first step of a responder method: TrySet, then panic or go on to hand
\* the answer to the protocol side.
Respond(c, what, reason) ==
    /\ responderMade
    /\ cpc[c] = "idle"
    /\ called' = TRUE
    /\ cwhat' = [cwhat EXCEPT ![c] = what]
    /\ creason' = [creason EXCEPT ![c] = reason]
    /\ cpc' = [cpc EXCEPT ![c] = IF TrySet THEN "send" ELSE "panicked"]
    /\ UNCHANGED <<kind, errq, hpc, handed, wire, proposal, cres, notResponder>>

\* A mutant of the responder methods: the result of TrySet is ignored.
RespondAnyway(c, what, reason) ==
    /\ responderMade
    /\ cpc[c] = "idle"
    /\ called' = TRUE
    /\ cwhat' = [cwhat EXCEPT ![c] = what]
    /\ creason' = [creason EXCEPT ![c] = reason]
    /\ cpc' = [cpc EXCEPT ![c] = "send"]
    /\ UNCHANGED <<kind, errq, hpc, handed, wire, proposal, cres, notResponder>>

\* A mutant of ProposalResponder.Accept: it does not look at the flag.
ProposalAcceptAnyway(c, what) ==
    kind = "proposal" /\ RespondAnyway(c, what, "none")

\* ProposalResponder.Accept(ctx, res), up to its send on r.accept.
ProposalAccept(c, what) == kind = "proposal" /\ Respond(c, what, "none")

\* ProposalResponder.Reject(ctx, reason), up to its send on r.reject.
ProposalReject(c, reason) == kind = "proposal" /\ Respond(c, "reject", reason)

\* UpdateResponder.Accept(ctx), up to its send on r.accept.
UpdateAccept(c) == kind = "update" /\ Respond(c, "accept", "none")

\* UpdateResponder.Reject(ctx, reason), up to its send on r.reject.
UpdateReject(c, reason) == kind = "update" /\ Respond(c, "reject", reason)

\* The send on the unbuffered r.accept / r.reject meets the receive of the
\* protocol side's select: the caller goes on to wait for r.err.
HandOver(c) ==
    /\ cpc[c] = "send"
    /\ hpc = "select"
    /\ handed' = Append(handed, [from |-> c, what |-> cwhat[c],
                                 reason |-> creason[c]])
    /\ cpc' = [cpc EXCEPT ![c] = "wait"]
    /\ hpc' = "reply"
    /\ UNCHANGED <<called, kind, cwhat, errq, wire, proposal, creason, cres,
                   notResponder>>

\* The reply to an update for the answer taken.
ReplyMsg(what) == IF what = "reject" THEN "Rej" ELSE "Acc"

\* A mutant of ProposalReplyMsg: the reply is an acceptance whatever the
\* user answered.
ProposalReplyMsgAcc(sess, ans) ==
    [type |-> "ChannelProposalAcc", SessID |-> sess, Reason |-> "none"]

\* msgAccept / msgReject: the reply to a proposal for the answer taken.
ProposalReplyMsg(sess, ans) ==
    IF ans.what = "reject"
    THEN [type |-> "ChannelProposalRej", SessID |-> sess, Reason |-> ans.reason]
    ELSE [type |-> "ChannelProposalAcc", SessID |-> sess, Reason |-> "none"]

\* handleChannelProposal after its select: an Accept without Participant is
\* an error; otherwise the reply is sent, and the send's result goes to r.err.
handleChannelProposal(sendOk) ==
    /\ kind = "proposal"
    /\ hpc = "reply"
    /\ hpc' = "done"
    /\ LET ans == handed[Len(handed)]
       IN  IF ans.what = "accept-nil"
           THEN /\ errq' = Append(errq, OtherError)
                /\ wire' = wire
           ELSE IF sendOk
           THEN /\ wire' = Append(wire, ProposalReplyMsg(proposal.SessID, ans))
                /\ errq' = Append(errq, NoErr)
           ELSE /\ wire' = wire
                /\ errq' = Append(errq, OtherError)
    /\ UNCHANGED <<called, kind, cpc, cwhat, handed, proposal, creason, cres,
                   notResponder>>

\* The protocol side of an update after its select: the reply is sent, and
\* the send's result goes to r.err.
handleUpdate(sendOk) ==
    /\ kind = "update"
    /\ hpc = "reply"
    /\ hpc' = "done"
    /\ LET what == handed[Len(handed)].what
       IN  IF sendOk
           THEN /\ wire' = Append(wire, ReplyMsg(what))
                /\ errq' = Append(errq, NoErr)
           ELSE /\ wire' = wire
                /\ errq' = Append(errq, OtherError)
    /\ UNCHANGED <<called, kind, cpc, cwhat, handed, proposal, creason, cres,
                   notResponder>>

\* return <-r.err
ReturnErr(c) ==
    /\ cpc[c] = "wait"
    /\ errq # <<>>
    /\ errq' = Tail(errq)
    /\ cres' = [cres EXCEPT ![c] = Head(errq)]
    /\ cpc' = [cpc EXCEPT ![c] = "done"]
    /\ UNCHANGED <<called, kind, cwhat, hpc, handed, wire, proposal, creason,
                   notResponder>>

ResponderNext ==
    \/ handleChannelProposalStart
    \/ \E c \in Callers, what \in {"accept", "accept-nil"} : ProposalAccept(c, what)
    \/ \E c \in Callers, reason \in Reasons : ProposalReject(c, reason)
    \/ \E c \in Callers : UpdateAccept(c)
    \/ \E c \in Callers, reason \in Reasons : UpdateReject(c, reason)
    \/ \E c \in Callers : HandOver(c)
    \/ \E sendOk \in BOOLEAN : handleChannelProposal(sendOk)
    \/ \E sendOk \in BOOLEAN : handleUpdate(sendOk)
    \/ \E c \in Callers : ReturnErr(c)

---------------------------------------------------------------------------
(* The channel controller *)

\* The goroutines of the user that call Channel.Update.
Updaters == {"u1", "u2"}

\* This channel, whose machine is the machine above, and another one of the
\* same client, of whose machine only the outcomes of the calls are looked at.
ThisChan  == "this"
OtherChan == "other"
Chans     == {ThisChan, OtherChan}

NoCall == [ch |-> "none", up |-> Nil, sig |-> Nil]

\* The send goroutine of the initial exchange: not started.
NoSend == [st |-> "none", sig |-> Nil]

\* No controller in use: the value of its variables while the machine or a
\* responder is looked at on its own.
channelIdle ==
    /\ machMtx = [ch \in Chans |-> "free"]
    /\ upc = [c \in Updaters |-> "idle"]
    /\ ucall = [c \in Updaters |-> NoCall]
    /\ ures = [c \in Updaters |-> "none"]
    /\ sent = <<>>
    /\ kpc = "none"
    /\ kres = "none"
    /\ xsend = NoSend

\* newChannel: a fresh machine and conn, the client about to call init.
newChannel ==
    /\ machMtx = [ch \in Chans |-> "free"]
    /\ upc = [c \in Updaters |-> "idle"]
    /\ ucall = [c \in Updaters |-> NoCall]
    /\ ures = [c \in Updaters |-> "none"]
    /\ sent = <<>>
    /\ kpc = "init"
    /\ kres = "none"
    /\ xsend = NoSend

\* newChannelConn's peerIdx: the participant index of the j-th peer of the
\* peer list, which leaves out the local participant.
peerIdx(j) == IF j >= Idx THEN j + 1 ELSE j

\* msgChannelUpdateAcc{ChannelID, Version, Sig}
msgChannelUpdateAcc(id, version, sig) ==
    [type |-> "ChannelUpdateAcc", ChannelID |-> id, Version |-> version, Sig |-> sig]

\* A (nil, nil) from Receiver.Next: the context is done or the receiver closed.
NoMsg == [type |-> "none"]

\* A mutant of Lock: it does not wait for the holder.
LockNoWait(ch) == ch \in Chans

\* machMtx.Lock(): the guard under which it returns.
Lock(ch) == machMtx[ch] = "free"

\* machMtx.Unlock(), deferred: runs on every return.
Unlock(ch) == machMtx' = [machMtx EXCEPT ![ch] = "free"]

\* The errors of validTwoPartyUpdate: "only update proposals with the
\* proposing peer as actor are allowed", "no locked sub-allocations allowed".
ActorError  == "actor-error"
LockedError == "locked-error"

\* A mutant of validTwoPartyUpdate: sub-allocations are not looked at.
validTwoPartyUpdateActorOnly(up, sigIdx) ==
    IF up.ActorIdx # sigIdx THEN ActorError
    ELSE NoErr

\* validTwoPartyUpdate(up, sigIdx): the error it returns.
validTwoPartyUpdate(up, sigIdx) ==
    IF up.ActorIdx # sigIdx THEN ActorError
    ELSE IF Len(up.State.Allocation.Locked) > 0 THEN LockedError
    ELSE NoErr

\* The return of a Channel.Update call with error e.
UpdateReturn(c, e) ==
    /\ upc' = [upc EXCEPT ![c] = "done"]
    /\ ures' = [ures EXCEPT ![c] = e]
    /\ ucall' = [ucall EXCEPT ![c] = NoCall]

\* Channel.Update(ctx, up) up to the Lock: validTwoPartyUpdate.
UpdateCall(c, ch, up) ==
    /\ upc[c] \in {"idle", "done"}
    /\ IF validTwoPartyUpdate(up, Idx) # NoErr
       THEN UpdateReturn(c, validTwoPartyUpdate(up, Idx))
       ELSE /\ upc' = [upc EXCEPT ![c] = "lock"]
            /\ ucall' = [ucall EXCEPT ![c] = [ch |-> ch, up |-> up, sig |-> Nil]]
            /\ ures' = [ures EXCEPT ![c] = "none"]
    /\ UNCHANGED <<machMtx, sent, kpc, kres, xsend, machineVars, notMachine>>

\* c.machMtx.Lock() in Channel.Update
UpdateLock(c) ==
    /\ upc[c] = "lock"
    /\ Lock(ucall[c].ch)
    /\ machMtx' = [machMtx EXCEPT ![ucall[c].ch] = c]
    /\ upc' = [upc EXCEPT ![c] = "update"]
    /\ UNCHANGED <<ucall, ures, sent, kpc, kres, xsend, machineVars, notMachine>>

\* c.machine.Update(up.State, up.ActorIdx) in Channel.Update, and the return
\* on its error.  otherErr is the outcome on the other channel's machine.
UpdateMachine(c, appOk, otherErr) ==
    /\ upc[c] = "update"
    /\ IF ucall[c].ch = ThisChan
       THEN Update(ucall[c].up.State, appOk)
       ELSE UNCHANGED <<machineVars, notMachine>>
    /\ LET e == IF ucall[c].ch = ThisChan THEN ret'.err ELSE otherErr
       IN  IF e # NoErr
           THEN UpdateReturn(c, e) /\ Unlock(ucall[c].ch)
           ELSE /\ upc' = [upc EXCEPT ![c] = "sig"]
                /\ UNCHANGED <<ucall, ures, machMtx>>
    /\ UNCHANGED <<sent, kpc, kres, xsend>>

\* sig, err := c.machine.Sig() in Channel.Update
UpdateSig(c, signOk) ==
    /\ upc[c] = "sig"
    /\ IF ucall[c].ch = ThisChan
       THEN /\ Sig(signOk)
            /\ upc' = [upc EXCEPT ![c] = IF ret'.err # NoErr THEN "discard" ELSE "send"]
            /\ ucall' = [ucall EXCEPT ![c].sig = ret'.sig]
       ELSE /\ UNCHANGED <<machineVars, notMachine>>
            /\ upc' = [upc EXCEPT ![c] = IF signOk THEN "send" ELSE "discard"]
            /\ ucall' = ucall
    /\ UNCHANGED <<ures, machMtx, sent, kpc, kres, xsend>>

\* The signing failed: c.machine.DiscardUpdate(), and the return of the error.
UpdateDiscard(c) ==
    /\ upc[c] = "discard"
    /\ IF ucall[c].ch = ThisChan
       THEN DiscardUpdate
       ELSE UNCHANGED <<machineVars, notMachine>>
    /\ UpdateReturn(c, OtherError)
    /\ Unlock(ucall[c].ch)
    /\ UNCHANGED <<sent, kpc, kres, xsend>>

\* return c.conn.send(ctx, msgUpAcc): the last statement of Channel.Update.
UpdateSend(c, sendOk) ==
    /\ upc[c] = "send"
    /\ sent' = IF sendOk /\ ucall[c].ch = ThisChan
               THEN Append(sent, msgChannelUpdateAcc(ChID,
                                    ucall[c].up.State.Version, ucall[c].sig))
               ELSE sent
    /\ UpdateReturn(c, IF sendOk THEN NoErr ELSE OtherError)
    /\ Unlock(ucall[c].ch)
    /\ UNCHANGED <<kpc, kres, xsend, machineVars, notMachine>>

\* c.machMtx.Lock() in Channel.init
initLock ==
    /\ kpc = "init"
    /\ Lock(ThisChan)
    /\ machMtx' = [machMtx EXCEPT ![ThisChan] = "client"]
    /\ kpc' = "locked"
    /\ UNCHANGED <<upc, ucall, ures, sent, kres, xsend, machineVars, notMachine>>

\* return c.machine.Init(*initBals, initData) in Channel.init; the client
\* goes on to the initial exchange if it succeeded.
init(initBals) ==
    /\ kpc = "locked"
    /\ Init(initBals)
    /\ Unlock(ThisChan)
    /\ kres' = ret'.err
    /\ kpc' = IF ret'.err = NoErr THEN "sig" ELSE "closed"
    /\ UNCHANGED <<upc, ucall, ures, sent, xsend>>

\* initExchangeSigsAndEnable: c.machine.Sig(), and the start of the
\* goroutine that sends the signature.
initExchangeSig(signOk) ==
    /\ kpc = "sig"
    /\ Sig(signOk)
    /\ IF ret'.err # NoErr
       THEN kpc' = "closed" /\ kres' = ret'.err /\ xsend' = xsend
       ELSE kpc' = "recv" /\ kres' = "none"
            /\ xsend' = [st |-> "pending", sig |-> ret'.sig]
    /\ UNCHANGED <<machMtx, upc, ucall, ures, sent>>

\* initExchangeSigsAndEnable: the goroutine's c.conn.send of the
\* msgChannelUpdateAcc of version 0.
initExchangeSend(sendOk) ==
    /\ xsend.st = "pending"
    /\ sent' = IF sendOk THEN Append(sent, msgChannelUpdateAcc(ChID, 0, xsend.sig))
               ELSE sent
    /\ xsend' = [xsend EXCEPT !.st = IF sendOk THEN "ok" ELSE "failed"]
    /\ UNCHANGED <<machMtx, upc, ucall, ures, kpc, kres, machineVars, notMachine>>

\* The messages c.conn.recv may return in the initial exchange while state
\* is staged: of this channel, from the peer.
InitReplyInputs(state) ==
    {msgChannelUpdateAcc(ChID, v, sig) : v \in {0, 1}, sig \in SigInputs(state)}
    \cup {[type |-> "ChannelUpdateRej"], [type |-> "ChannelUpdate"], NoMsg}

\* A mutant of initExchangeRecv: the version of the reply is not looked at.
initExchangeRecvAnyVersion(m) ==
    /\ kpc = "recv"
    /\ IF m = NoMsg
       THEN /\ kpc' = "closed" /\ kres' = Panic
            /\ UNCHANGED <<machineVars, notMachine>>
       ELSE IF m.type # "ChannelUpdateAcc"
       THEN /\ kpc' = "closed" /\ kres' = OtherError
            /\ UNCHANGED <<machineVars, notMachine>>
       ELSE /\ AddSig(peerIdx(1), m.Sig)
            /\ kres' = IF ret'.err # NoErr THEN ret'.err ELSE "none"
            /\ kpc' = IF ret'.err # NoErr THEN "closed" ELSE "enable"
    /\ UNCHANGED <<machMtx, upc, ucall, ures, sent, xsend>>

\* initExchangeSigsAndEnable: c.conn.recv, the checks of the reply, and
\* c.machine.AddSig(pidx, acc.Sig).
initExchangeRecv(m) ==
    /\ kpc = "recv"
    /\ IF m = NoMsg
       THEN /\ kpc' = "closed" /\ kres' = Panic
            /\ UNCHANGED <<machineVars, notMachine>>
       ELSE IF m.type # "ChannelUpdateAcc" \/ m.Version # 0
       THEN /\ kpc' = "closed" /\ kres' = OtherError
            /\ UNCHANGED <<machineVars, notMachine>>
       ELSE /\ AddSig(peerIdx(1), m.Sig)
            /\ kres' = IF ret'.err # NoErr THEN ret'.err ELSE "none"
            /\ kpc' = IF ret'.err # NoErr THEN "closed" ELSE "enable"
    /\ UNCHANGED <<machMtx, upc, ucall, ures, sent, xsend>>

\* initExchangeSigsAndEnable: c.machine.EnableInit()
initExchangeEnable ==
    /\ kpc = "enable"
    /\ EnableInit
    /\ kres' = IF ret'.err # NoErr THEN ret'.err ELSE "none"
    /\ kpc' = IF ret'.err # NoErr THEN "closed" ELSE "wait"
    /\ UNCHANGED <<machMtx, upc, ucall, ures, sent, xsend>>

\* initExchangeSigsAndEnable: return errors.WithMessage(<-send, ...); on
\* success the client waits for the funding.
initExchangeReturn ==
    /\ kpc = "wait"
    /\ xsend.st \in {"ok", "failed"}
    /\ kres' = IF xsend.st = "ok" THEN NoErr ELSE OtherError
    /\ kpc' = IF xsend.st = "ok" THEN "funding" ELSE "closed"
    /\ xsend' = [xsend EXCEPT !.st = "returned"]
    /\ UNCHANGED <<machMtx, upc, ucall, ures, sent, machineVars, notMachine>>

\* The funder signals that the channel is funded: machine.SetFunded().
Funded ==
    /\ kpc = "funding"
    /\ SetFunded
    /\ kpc' = "open"
    /\ UNCHANGED <<machMtx, upc, ucall, ures, sent, kres, xsend>>

\* The ChannelUpdates Channel.Update is called with on this channel in the
\* current state: every state without sub-allocations of the next version
\* by the local participant, the current state again, one by the peer and
\* one with a sub-allocation.
ChannelUpdateInputs ==
    IF currentTX.State = Nil
    THEN {[State |-> CHOOSE s \in PlainStateInputs : TRUE, ActorIdx |-> Idx]}
    ELSE LET next == [currentTX.State EXCEPT !.Version = @ + 1]
             nexts == {s \in PlainStateInputs :
                          s.Version = next.Version /\ ~s.IsFinal}
         IN  {[State |-> s, ActorIdx |-> Idx] : s \in nexts \cup {currentTX.State}}
             \cup {[State |-> next, ActorIdx |-> peerIdx(1)]}
             \cup {[State |-> [next EXCEPT !.Allocation.Locked =
                                   <<[ID |-> "child",
                                      Bals |-> [a \in 1..NumAssets |-> 0]]>>],
                    ActorIdx |-> Idx]}

\* The one ChannelUpdate that stands for the calls on the other channel.
OtherUpdateInput == [State |-> CHOOSE s \in PlainStateInputs : TRUE, ActorIdx |-> Idx]

\* The allocations the client opens the channel with.
ChannelInitInputs == PlainAllocInputs

ChannelNext ==
    \/ \E c \in Updaters, up \in ChannelUpdateInputs : UpdateCall(c, ThisChan, up)
    \/ \E c \in Updaters : UpdateCall(c, OtherChan, OtherUpdateInput)
    \/ \E c \in Updaters : UpdateLock(c)
    \/ \E c \in Updaters, appOk \in BOOLEAN, otherErr \in {NoErr, OtherError} :
          UpdateMachine(c, appOk, otherErr)
    \/ \E c \in Updaters, signOk \in BOOLEAN : UpdateSig(c, signOk)
    \/ \E c \in Updaters : UpdateDiscard(c)
    \/ \E c \in Updaters, sendOk \in BOOLEAN : UpdateSend(c, sendOk)
    \/ initLock
    \/ \E initBals \in ChannelInitInputs : init(initBals)
    \/ \E signOk \in BOOLEAN : initExchangeSig(signOk)
    \/ \E sendOk \in BOOLEAN : initExchangeSend(sendOk)
    \/ \E m \in InitReplyInputs(stagingTX.State) : initExchangeRecv(m)
    \/ initExchangeEnable
    \/ initExchangeReturn
    \/ Funded

---------------------------------------------------------------------------
(* The peer registry *)

\* The addresses of the remote peers.
Addrs == {"P", "Q"}

\* The goroutines calling Get, the inbound connections a listener accepted,
\* and the listeners passed to Listen.
Getters   == {"g1", "g2"}
Inbounds  == {"i1", "i2"}
Listeners == {"l1"}

\* A peer object is named after the call that made it: every Get and every
\* inbound connection makes at most one.
PeerNames == Getters \cup Inbounds

NoGet == [pc |-> "idle", addr |-> "none", peer |-> "none", err |-> "none"]
NoIn  == [st |-> "new", auth |-> "none", peer |-> "none"]

\* The dial of a placeholder: its position ("ok": returned nil, "error":
\* returned an error) and the connection the dialer gave it.
NoDial == [st |-> "none", got |-> Nil]

\* NewRegistry: no peers, not closed; nothing called yet.
NewRegistry ==
    /\ rpeers = <<>>
    /\ pobj = [n \in PeerNames |-> Nil]
    /\ rclosed = FALSE
    /\ rlisten = [l \in Listeners |-> "unused"]
    /\ rdialer = "open"
    /\ gets = [g \in Getters |-> NoGet]
    /\ dials = [n \in PeerNames |-> NoDial]
    /\ ins = [i \in Inbounds |-> NoIn]
    /\ hooks = [n \in PeerNames |-> 0]
    /\ rret = "none"

\* No registry in use: the value of its variables while another component
\* is looked at on its own.
registryIdle == NewRegistry

\* The names in the list.
InRegistry == {rpeers[k] : k \in 1..Len(rpeers)}

\* Registry.find(addr): the first peer of the list with that address, or "none".
find(addr) ==
    IF \E k \in 1..Len(rpeers) : pobj[rpeers[k]].addr = addr
    THEN rpeers[CHOOSE k \in 1..Len(rpeers) :
                   /\ pobj[rpeers[k]].addr = addr
                   /\ \A j \in 1..(k - 1) : pobj[rpeers[j]].addr # addr]
    ELSE "none"

\* Registry.Has(addr) and Registry.NumPeers()
Has(addr) == find(addr) # "none"
NumPeers  == Len(rpeers)

\* Peer.exists(): the peer has a connection.
exists(n) == pobj[n].conn # Nil

\* The list without n.
RECURSIVE Without(_, _)
Without(list, n) ==
    IF list = <<>> THEN <<>>
    ELSE IF Head(list) = n THEN Without(Tail(list), n)
    ELSE <<Head(list)>> \o Without(Tail(list), n)

\* A connection: who it was made for, and the address its remote side
\* authenticates as ("fail": the address exchange fails).
Conn(for, auth) == [for |-> for, auth |-> auth]

\* Registry.addPeer(addr, conn): a new peer at the end of the list, and the
\* subscription hook invoked for it.
addPeer(n, addr, conn) ==
    /\ pobj' = [pobj EXCEPT ![n] = [addr |-> addr, conn |-> conn, closed |-> FALSE]]
    /\ rpeers' = Append(rpeers, n)
    /\ hooks' = [hooks EXCEPT ![n] = @ + 1]

\* A mutant of Get: it never looks for a peer of that address.
GetAlwaysDial(g, addr) ==
    /\ gets[g].pc = "idle"
    /\ ~rclosed
    /\ addPeer(g, addr, Nil)
    /\ dials' = [dials EXCEPT ![g] = [st |-> "dialing", got |-> Nil]]
    /\ gets' = [gets EXCEPT ![g] = [pc |-> "wait", addr |-> addr,
                                    peer |-> g, err |-> "none"]]
    /\ UNCHANGED <<rclosed, rlisten, rdialer, ins, rret, notRegistry>>

\* Registry.Get(ctx, addr) under the registry's mutex: the peer of that
\* address if there is one, else a placeholder peer and a dial for it.
Get(g, addr) ==
    /\ gets[g].pc = "idle"
    /\ ~rclosed
    /\ IF Has(addr)
       THEN /\ gets' = [gets EXCEPT ![g] = [pc |-> "wait", addr |-> addr,
                                            peer |-> find(addr), err |-> "none"]]
            /\ UNCHANGED <<rpeers, pobj, hooks, dials>>
       ELSE /\ addPeer(g, addr, Nil)
            /\ dials' = [dials EXCEPT ![g] = [st |-> "dialing", got |-> Nil]]
            /\ gets' = [gets EXCEPT ![g] = [pc |-> "wait", addr |-> addr,
                                            peer |-> g, err |-> "none"]]
    /\ UNCHANGED <<rclosed, rlisten, rdialer, ins, rret, notRegistry>>

\* Registry.Get returns: the peer once it has a connection; an error if the
\* peer was closed, or (expired) if the context ends first.
GetReturn(g, expired) ==
    /\ gets[g].pc = "wait"
    /\ LET n == gets[g].peer
       IN  IF exists(n) /\ ~pobj[n].closed
           THEN gets' = [gets EXCEPT ![g].pc = "done", ![g].err = NoErr]
           ELSE /\ pobj[n].closed \/ expired
                /\ gets' = [gets EXCEPT ![g].pc = "done", ![g].peer = "none",
                                        ![g].err = OtherError]
    /\ UNCHANGED <<rpeers, pobj, rclosed, rlisten, rdialer, dials, ins, hooks,
                   rret, notRegistry>>

\* The connections a dial for placeholder n may yield: none (the dial
\* fails), or one whose remote side authenticates as some address or fails
\* to.  A closed dialer yields none.
DialInputs(n) ==
    {Nil} \cup (IF rdialer = "closed" THEN {}
                ELSE {Conn(n, a) : a \in Addrs \cup {"fail"}})

\* A mutant of authenticatedDial: the connection is installed whatever its
\* remote side authenticated as.
authenticatedDialNoAuth(n, conn) ==
    /\ dials[n].st = "dialing"
    /\ IF conn # Nil
       THEN /\ dials' = [dials EXCEPT ![n] = [st |-> "ok", got |-> conn]]
            /\ pobj' = IF exists(n) THEN pobj ELSE [pobj EXCEPT ![n].conn = conn]
            /\ rpeers' = rpeers
       ELSE IF exists(n)
       THEN /\ dials' = [dials EXCEPT ![n] = [st |-> "ok", got |-> conn]]
            /\ UNCHANGED <<pobj, rpeers>>
       ELSE /\ dials' = [dials EXCEPT ![n] = [st |-> "error", got |-> conn]]
            /\ pobj' = [pobj EXCEPT ![n].closed = TRUE]
            /\ rpeers' = Without(rpeers, n)
    /\ UNCHANGED <<rclosed, rlisten, rdialer, gets, ins, hooks, rret, notRegistry>>

\* Registry.authenticatedDial(ctx, p, addr): dial, exchange addresses, and
\* give the peer the connection if the remote side is addr.  Otherwise it
\* returns nil if the peer has a connection anyway, and else an error, the
\* placeholder being closed and deleted.
authenticatedDial(n, conn) ==
    /\ dials[n].st = "dialing"
    /\ IF conn # Nil /\ conn.auth = pobj[n].addr
       THEN /\ dials' = [dials EXCEPT ![n] = [st |-> "ok", got |-> conn]]
            /\ pobj' = IF exists(n) THEN pobj ELSE [pobj EXCEPT ![n].conn = conn]
            /\ rpeers' = rpeers
       ELSE IF exists(n)
       THEN /\ dials' = [dials EXCEPT ![n] = [st |-> "ok", got |-> conn]]
            /\ UNCHANGED <<pobj, rpeers>>
       ELSE /\ dials' = [dials EXCEPT ![n] = [st |-> "error", got |-> conn]]
            /\ pobj' = [pobj EXCEPT ![n].closed = TRUE]
            /\ rpeers' = Without(rpeers, n)
    /\ UNCHANGED <<rclosed, rlisten, rdialer, gets, ins, hooks, rret, notRegistry>>

\* A mutant of Register: it never looks for a peer of that address.
RegisterNoFind(i, addr, conn) ==
    /\ addPeer(i, addr, conn)
    /\ ins' = [ins EXCEPT ![i] = [st |-> "added", auth |-> addr, peer |-> i]]

\* A mutant of Register: the connection of a live peer is replaced.
RegisterReplace(i, addr, conn) ==
    IF Has(addr)
    THEN /\ pobj' = [pobj EXCEPT ![find(addr)].conn = conn]
         /\ ins' = [ins EXCEPT ![i] = [st |-> "filled", auth |-> addr,
                                       peer |-> find(addr)]]
         /\ UNCHANGED <<rpeers, hooks>>
    ELSE /\ addPeer(i, addr, conn)
         /\ ins' = [ins EXCEPT ![i] = [st |-> "added", auth |-> addr, peer |-> i]]

\* Registry.Register(addr, conn) under the registry's mutex: a live peer
\* of that address keeps its connection and conn is discarded; a
\* placeholder is filled; without a peer of that address one is added.
Register(i, addr, conn) ==
    IF Has(addr) /\ exists(find(addr))
    THEN /\ ins' = [ins EXCEPT ![i] = [st |-> "discarded", auth |-> addr,
                                       peer |-> find(addr)]]
         /\ UNCHANGED <<rpeers, pobj, hooks>>
    ELSE IF Has(addr)
    THEN /\ pobj' = [pobj EXCEPT ![find(addr)].conn = conn]
         /\ ins' = [ins EXCEPT ![i] = [st |-> "filled", auth |-> addr,
                                       peer |-> find(addr)]]
         /\ UNCHANGED <<rpeers, hooks>>
    ELSE /\ addPeer(i, addr, conn)
         /\ ins' = [ins EXCEPT ![i] = [st |-> "added", auth |-> addr, peer |-> i]]

\* Client.setupConn(conn): the address exchange, and the registration of
\* the connection under the address the remote side authenticated as.
\* Connections come from the accept loop of an open registry: Close closes
\* the listener, and none is set up afterwards.
setupConn(i, conn) ==
    /\ ins[i].st = "new"
    /\ ~rclosed
    /\ IF conn.auth = "fail"
       THEN /\ ins' = [ins EXCEPT ![i] = [st |-> "failed", auth |-> "fail",
                                          peer |-> "none"]]
            /\ UNCHANGED <<rpeers, pobj, hooks>>
       ELSE Register(i, conn.auth, conn)
    /\ UNCHANGED <<rclosed, rlisten, rdialer, gets, dials, rret, notRegistry>>

\* A peer with a connection is closed: it leaves the registry (delete), and
\* a dial still running for it is cancelled.
PeerClose(n) ==
    /\ n \in InRegistry
    /\ exists(n)
    /\ pobj' = [pobj EXCEPT ![n].closed = TRUE]
    /\ rpeers' = Without(rpeers, n)
    /\ dials' = [dials EXCEPT ![n].st = IF @ = "dialing" THEN "cancelled" ELSE @]
    /\ UNCHANGED <<rclosed, rlisten, rdialer, gets, ins, hooks, rret, notRegistry>>

\* The dialer is closed by its owner.
DialerClose ==
    /\ rdialer = "open"
    /\ rdialer' = "closed"
    /\ UNCHANGED <<rpeers, pobj, rclosed, rlisten, gets, dials, ins, hooks, rret,
                   notRegistry>>

\* Registry.Listen(listener) up to its accept loop: on a closed registry
\* the listener is closed at once.
Listen(l) ==
    /\ rlisten[l] = "unused"
    /\ rlisten' = [rlisten EXCEPT ![l] = IF rclosed THEN "closed" ELSE "listening"]
    /\ UNCHANGED <<rpeers, pobj, rclosed, rdialer, gets, dials, ins, hooks, rret,
                   notRegistry>>

\* A mutant of Close: a failure to close a peer is dropped.
CloseDropsError(failing) ==
    IF rclosed
    THEN /\ rret' = OtherError
         /\ UNCHANGED <<rpeers, pobj, rclosed, rlisten, rdialer, gets, dials, ins,
                        hooks, notRegistry>>
    ELSE /\ rclosed' = TRUE
         /\ rret' = IF rdialer = "closed" THEN OtherError ELSE NoErr
         /\ rlisten' = [l \in Listeners |->
                           IF rlisten[l] = "listening" THEN "closed" ELSE rlisten[l]]
         /\ pobj' = [n \in PeerNames |->
                        IF n \in InRegistry THEN [pobj[n] EXCEPT !.closed = TRUE]
                        ELSE pobj[n]]
         /\ rpeers' = <<>>
         /\ rdialer' = "closed"
         /\ dials' = [n \in PeerNames |->
                         IF dials[n].st = "dialing"
                         THEN [dials[n] EXCEPT !.st = "cancelled"] ELSE dials[n]]
         /\ UNCHANGED <<gets, ins, hooks, notRegistry>>

\* Registry.Close(): an error on a closed registry; else the listeners, the
\* peers and the dialer are closed, and a failure of theirs is returned.
\* failing are the peers of the list whose Close fails.
Close(failing) ==
    IF rclosed
    THEN /\ rret' = OtherError
         /\ UNCHANGED <<rpeers, pobj, rclosed, rlisten, rdialer, gets, dials, ins,
                        hooks, notRegistry>>
    ELSE /\ rclosed' = TRUE
         /\ rret' = IF failing # {} \/ rdialer = "closed" THEN OtherError ELSE NoErr
         /\ rlisten' = [l \in Listeners |->
                           IF rlisten[l] = "listening" THEN "closed" ELSE rlisten[l]]
         /\ pobj' = [n \in PeerNames |->
                        IF n \in InRegistry THEN [pobj[n] EXCEPT !.closed = TRUE]
                        ELSE pobj[n]]
         /\ rpeers' = <<>>
         /\ rdialer' = "closed"
         /\ dials' = [n \in PeerNames |->
                         IF dials[n].st = "dialing"
                         THEN [dials[n] EXCEPT !.st = "cancelled"] ELSE dials[n]]
         /\ UNCHANGED <<gets, ins, hooks, notRegistry>>

\* The peers whose Close may fail: those with a connection.
CloseInputs == SUBSET {n \in InRegistry : exists(n)}

\* The connections a listener hands to setupConn.
InboundInputs(i) == {Conn(i, a) : a \in Addrs \cup {"fail"}}

RegistryNext ==
    \/ \E g \in Getters, addr \in Addrs : Get(g, addr) /\ UNCHANGED clientVars
    \/ \E g \in Getters, expired \in BOOLEAN :
          GetReturn(g, expired) /\ UNCHANGED clientVars
    \/ \E n \in PeerNames : \E conn \in DialInputs(n) :
          authenticatedDial(n, conn) /\ UNCHANGED clientVars
    \/ \E i \in Inbounds : \E conn \in InboundInputs(i) :
          setupConn(i, conn) /\ UNCHANGED clientVars
    \/ \E n \in PeerNames : PeerClose(n) /\ UNCHANGED clientVars
    \/ DialerClose /\ UNCHANGED clientVars
    \/ \E l \in Listeners : Listen(l) /\ UNCHANGED clientVars
    \/ \E failing \in CloseInputs : Close(failing) /\ UNCHANGED clientVars

---------------------------------------------------------------------------
(* The client *)

\* The listeners passed to Client.Listen.
ClientListeners == {"cl1", "cl2"}

\* client.New: the client's Closer is open, and the registry is new.
NewClient ==
    /\ cclosed = FALSE
    /\ clisten = [l \in ClientListeners |-> "unused"]
    /\ cret = "none"

clientIdle == NewClient

\* Client.Listen(listener) up to its accept loop: the client closes the
\* listener when it is closed.  A closed Closer takes no further handler.
ClientListen(l) ==
    /\ clisten[l] = "unused"
    /\ clisten' = [clisten EXCEPT ![l] = "listening"]
    /\ UNCHANGED <<cclosed, cret, registryVars, notRegistry>>

\* A mutant of Client.Close: the error of Closer.Close is not looked at.
ClientCloseAnyway(failing) ==
    /\ cclosed' = TRUE
    /\ clisten' = [l \in ClientListeners |->
                      IF ~cclosed /\ clisten[l] = "listening" THEN "closed"
                      ELSE clisten[l]]
    /\ Close(failing)
    /\ cret' = IF rret' = NoErr THEN NoErr ELSE OtherError

\* Client.Close(): Closer.Close fails on a closed Closer, and Close returns
\* its error; else the Closer is closed, which closes the listeners, then
\* the registry is closed and its error is returned.
ClientClose(failing) ==
    IF cclosed
    THEN /\ cret' = OtherError
         /\ UNCHANGED <<cclosed, clisten, registryVars, notRegistry>>
    ELSE /\ cclosed' = TRUE
         /\ clisten' = [l \in ClientListeners |->
                           IF clisten[l] = "listening" THEN "closed" ELSE clisten[l]]
         /\ Close(failing)
         /\ cret' = IF rret' = NoErr THEN NoErr ELSE OtherError

\* The client with its registry: inbound connections, listeners, and Close
\* of the client and of the registry.
ClientNext ==
    \/ \E l \in ClientListeners : ClientListen(l)
    \/ \E failing \in CloseInputs : ClientClose(failing)
    \/ \E failing \in CloseInputs : Close(failing) /\ UNCHANGED clientVars
    \/ \E i \in Inbounds : \E conn \in InboundInputs(i) :
          setupConn(i, conn) /\ UNCHANGED clientVars
    \/ \E n \in PeerNames : PeerClose(n) /\ UNCHANGED clientVars
    \/ DialerClose /\ UNCHANGED clientVars

---------------------------------------------------------------------------
(* The receiver *)

\* receiverBufferSize: how many messages can be queued in a receiver.
receiverBufferSize == 16

\* The peers that dispatch messages to the receiver.  p1 passes up to
\* MaxPuts messages to Put, p2 up to MaxOtherPuts; each peer numbers its own.
Senders == {"p1", "p2"}
PutBound(p) == IF p = "p1" THEN MaxPuts ELSE MaxOtherPuts

\* msgTuple{*Peer, wire.Msg}; the k-th message of a peer; and (nil, nil).
NilPeer == "nil"
msgTuple(peer, msg) == [Peer |-> peer, Msg |-> msg]
Msg(k) == [no |-> k]
NilPair == msgTuple(NilPeer, Nil)
NoRet == [none |-> TRUE]

\* NewReceiver: an empty open queue; nobody has called Next or Put.
NewReceiver ==
    /\ msgs = <<>>
    /\ rcvClosed = FALSE
    /\ npc = "idle"
    /\ nctx = "none"
    /\ nret = NoRet
    /\ ppc = [p \in Senders |-> "idle"]
    /\ nput = [p \in Senders |-> 0]
    /\ lastTaken = [p \in Senders |-> 0]

\* No receiver in use: the value of its variables while another component
\* is looked at on its own.
receiverIdle == NewReceiver

\* The return of a Next call.
NextReturn(tuple) ==
    /\ npc' = "idle"
    /\ nctx' = "none"
    /\ nret' = tuple

\* Receiver.Next(ctx) up to its second select: (nil, nil) at once if ctx is
\* done or the receiver closed, whatever is queued.
NextSelect1(ctx) ==
    /\ npc = "idle"
    /\ IF ctx = "done" \/ rcvClosed
       THEN NextReturn(NilPair)
       ELSE npc' = "wait" /\ nctx' = ctx /\ nret' = NoRet
    /\ UNCHANGED <<msgs, rcvClosed, ppc, nput, lastTaken, notReceiver>>

\* A mutant of the second select that takes the newest queued message.
NextSelect2Newest ==
    /\ npc = "wait"
    /\ \/ /\ nctx = "done" \/ rcvClosed
          /\ NextReturn(NilPair)
          /\ UNCHANGED <<msgs, lastTaken>>
       \/ /\ msgs # <<>>
          /\ NextReturn(msgs[Len(msgs)])
          /\ msgs' = SubSeq(msgs, 1, Len(msgs) - 1)
          /\ lastTaken' = [lastTaken EXCEPT ![msgs[Len(msgs)].Peer] =
                                                msgs[Len(msgs)].Msg.no]
    /\ UNCHANGED <<rcvClosed, ppc, nput, notReceiver>>

\* A mutant of the second select that returns the peer without the message.
NextSelect2HalfPair ==
    /\ npc = "wait"
    /\ \/ /\ nctx = "done" \/ rcvClosed
          /\ NextReturn(NilPair)
          /\ UNCHANGED <<msgs, lastTaken>>
       \/ /\ msgs # <<>>
          /\ NextReturn(msgTuple(Head(msgs).Peer, Nil))
          /\ msgs' = Tail(msgs)
          /\ lastTaken' = [lastTaken EXCEPT ![Head(msgs).Peer] = Head(msgs).Msg.no]
    /\ UNCHANGED <<rcvClosed, ppc, nput, notReceiver>>

\* The second select of Receiver.Next: any of its cases that is ready.
NextSelect2 ==
    /\ npc = "wait"
    /\ \/ /\ nctx = "done" \/ rcvClosed
          /\ NextReturn(NilPair)
          /\ UNCHANGED <<msgs, lastTaken>>
       \/ /\ msgs # <<>>
          /\ NextReturn(Head(msgs))
          /\ msgs' = Tail(msgs)
          /\ lastTaken' = [lastTaken EXCEPT ![Head(msgs).Peer] = Head(msgs).Msg.no]
    /\ UNCHANGED <<rcvClosed, ppc, nput, notReceiver>>

\* The context of the Next call in progress expires or is cancelled.
CtxDone ==
    /\ npc = "wait"
    /\ nctx = "live"
    /\ nctx' = "done"
    /\ UNCHANGED <<msgs, rcvClosed, npc, nret, ppc, nput, lastTaken, notReceiver>>

\* Receiver.Close() of the embedded Closer.
ReceiverClose ==
    /\ ~rcvClosed
    /\ rcvClosed' = TRUE
    /\ UNCHANGED <<msgs, npc, nctx, nret, ppc, nput, lastTaken, notReceiver>>

\* A peer calls Receiver.Put(peer, msg) with its next message.  The peers
\* dispatch to a receiver that is open; a Put that the Close overtakes goes
\* on in Put below.
PutCall(p) ==
    /\ ppc[p] = "idle"
    /\ ~rcvClosed
    /\ nput[p] < PutBound(p)
    /\ ppc' = [ppc EXCEPT ![p] = "put"]
    /\ nput' = [nput EXCEPT ![p] = @ + 1]
    /\ UNCHANGED <<msgs, rcvClosed, npc, nctx, nret, lastTaken, notReceiver>>

\* A mutant of Put's select: a full queue loses its oldest message.
PutOverwrite(p) ==
    /\ ppc[p] = "put"
    /\ \/ msgs' = Append(IF Len(msgs) < receiverBufferSize THEN msgs ELSE Tail(msgs),
                         msgTuple(p, Msg(nput[p])))
       \/ rcvClosed /\ msgs' = msgs
    /\ ppc' = [ppc EXCEPT ![p] = "idle"]
    /\ UNCHANGED <<rcvClosed, npc, nctx, nret, nput, lastTaken, notReceiver>>

\* The select of Receiver.Put: the send when the channel has room, or the
\* return without it when the receiver is closed.
Put(p) ==
    /\ ppc[p] = "put"
    /\ \/ /\ Len(msgs) < receiverBufferSize
          /\ msgs' = Append(msgs, msgTuple(p, Msg(nput[p])))
       \/ rcvClosed /\ msgs' = msgs
    /\ ppc' = [ppc EXCEPT ![p] = "idle"]
    /\ UNCHANGED <<rcvClosed, npc, nctx, nret, nput, lastTaken, notReceiver>>

\* The contexts Next is called with.
CtxInputs == {"live", "done"}

ReceiverNext ==
    \/ \E ctx \in CtxInputs : NextSelect1(ctx)
    \/ NextSelect2
    \/ CtxDone
    \/ ReceiverClose
    \/ \E p \in Senders : PutCall(p)
    \/ \E p \in Senders : Put(p)

---------------------------------------------------------------------------
(* The selectable mutex *)

\* The goroutines that call Lock, TryLock and Unlock on one Mutex.
Lockers == {"m1", "m2", "m3"}

\* A Mutex as declared: locked is nil until initOnce makes the channel.
NewMutex ==
    /\ locked = "nil"
    /\ mpc = [c \in Lockers |-> "idle"]
    /\ mctx = [c \in Lockers |-> "none"]
    /\ mres = [c \in Lockers |-> "none"]
    /\ holder = "none"
    /\ msync = {}

\* No mutex in use: the value of its variables while another component is
\* looked at on its own.
mutexIdle == NewMutex

\* log.Fatal was called: the process has ended.
Fatal == \E c \in Lockers : mres[c] = "fatal"

\* initOnce: the channel after it.
initOnce == IF locked = "nil" THEN "empty" ELSE locked

\* A mutant of Lock: the send does not wait for room in the channel.
MutexLockNoWait(c) ==
    /\ ~Fatal
    /\ mpc[c] = "idle"
    /\ locked' = "full"
    /\ holder' = c
    /\ mres' = [mres EXCEPT ![c] = "locked"]
    /\ msync' = msync \cup {c}
    /\ UNCHANGED <<mpc, mctx, notMutex>>

\* Mutex.Lock(): initOnce and the send on locked, which blocks while the
\* channel is full.
MutexLock(c) ==
    /\ ~Fatal
    /\ mpc[c] = "idle"
    /\ initOnce = "empty"
    /\ locked' = "full"
    /\ holder' = c
    /\ mres' = [mres EXCEPT ![c] = "locked"]
    /\ msync' = msync \cup {c}
    /\ UNCHANGED <<mpc, mctx, notMutex>>

\* A mutant of TryLock: the context is looked at only while it waits.
MutexTryLockLate(c, ctx) ==
    /\ ~Fatal
    /\ mpc[c] = "idle"
    /\ msync' = msync \cup {c}
    /\ IF ctx = "nil" /\ initOnce = "empty"
       THEN /\ locked' = "full" /\ holder' = c
            /\ mres' = [mres EXCEPT ![c] = "true"]
            /\ UNCHANGED <<mpc, mctx>>
       ELSE IF ctx = "nil"
       THEN /\ locked' = initOnce
            /\ mres' = [mres EXCEPT ![c] = "false"]
            /\ UNCHANGED <<mpc, mctx, holder>>
       ELSE /\ locked' = initOnce
            /\ mpc' = [mpc EXCEPT ![c] = "try"]
            /\ mctx' = [mctx EXCEPT ![c] = ctx]
            /\ mres' = [mres EXCEPT ![c] = "none"]
            /\ holder' = holder
    /\ UNCHANGED notMutex

\* Mutex.TryLock(ctx) up to its blocking select: initOnce; with a context,
\* false if it is done; without one, the send if the channel has room.
MutexTryLock(c, ctx) ==
    /\ ~Fatal
    /\ mpc[c] = "idle"
    /\ msync' = msync \cup {c}
    /\ IF ctx = "nil" /\ initOnce = "empty"
       THEN /\ locked' = "full" /\ holder' = c
            /\ mres' = [mres EXCEPT ![c] = "true"]
            /\ UNCHANGED <<mpc, mctx>>
       ELSE IF ctx \in {"nil", "done"}
       THEN /\ locked' = initOnce
            /\ mres' = [mres EXCEPT ![c] = "false"]
            /\ UNCHANGED <<mpc, mctx, holder>>
       ELSE /\ locked' = initOnce
            /\ mpc' = [mpc EXCEPT ![c] = "try"]
            /\ mctx' = [mctx EXCEPT ![c] = ctx]
            /\ mres' = [mres EXCEPT ![c] = "none"]
            /\ holder' = holder
    /\ UNCHANGED notMutex

\* The blocking select of TryLock(ctx): the send, or ctx.Done().
MutexTryLockSelect(c) ==
    /\ ~Fatal
    /\ mpc[c] = "try"
    /\ \/ /\ locked = "empty"
          /\ locked' = "full" /\ holder' = c
          /\ mres' = [mres EXCEPT ![c] = "true"]
       \/ /\ mctx[c] = "done"
          /\ mres' = [mres EXCEPT ![c] = "false"]
          /\ UNCHANGED <<locked, holder>>
    /\ mpc' = [mpc EXCEPT ![c] = "idle"]
    /\ mctx' = [mctx EXCEPT ![c] = "none"]
    /\ UNCHANGED <<msync, notMutex>>

\* The context of a waiting TryLock expires or is cancelled.
MutexCtxDone(c) ==
    /\ ~Fatal
    /\ mpc[c] = "try"
    /\ mctx[c] = "live"
    /\ mctx' = [mctx EXCEPT ![c] = "done"]
    /\ UNCHANGED <<locked, mpc, mres, holder, msync, notMutex>>

\* What a caller reads as m.locked in Unlock, which does not call initOnce:
\* the channel; or still nil if nothing orders its read after the
\* initialisation another goroutine made.
UnlockReads(c) ==
    {locked} \cup (IF c \in msync THEN {} ELSE {"nil"})

\* Mutex.Unlock(): the receive from locked, or log.Fatal if nothing is
\* there to receive.
MutexUnlock(c, read) ==
    /\ ~Fatal
    /\ mpc[c] = "idle"
    /\ IF read = "full"
       THEN /\ locked' = "empty"
            /\ holder' = "none"
            /\ msync' = msync \cup {c}
            /\ mres' = [mres EXCEPT ![c] = "unlocked"]
       ELSE /\ mres' = [mres EXCEPT ![c] = "fatal"]
            /\ UNCHANGED <<locked, holder, msync>>
    /\ UNCHANGED <<mpc, mctx, notMutex>>

\* The contexts TryLock is called with.
TryLockInputs == {"nil", "live", "done"}

MutexNext ==
    \/ \E c \in Lockers : MutexLock(c)
    \/ \E c \in Lockers, ctx \in TryLockInputs : MutexTryLock(c, ctx)
    \/ \E c \in Lockers : MutexTryLockSelect(c)
    \/ \E c \in Lockers : MutexCtxDone(c)
    \/ \E c \in Lockers : \E read \in UnlockReads(c) : MutexUnlock(c, read)

---------------------------------------------------------------------------
(* The peers of a channel connection *)

\* The addresses participant lists are made of.
PartAddrs == {"alice", "bob", "carol"}

\* The participant lists: of any length up to MaxParts; a list may name an
\* address twice, which nothing in the client rules out.
RECURSIVE ListsUpTo(_)
ListsUpTo(n) ==
    IF n = 0 THEN {<<>>}
    ELSE ListsUpTo(n - 1)
         \cup {Append(l, a) : l \in {m \in ListsUpTo(n - 1) : Len(m) = n - 1},
                              a \in PartAddrs}
PartsInputs == ListsUpTo(MaxParts)

\* c.peers.Get(a): the registry's peer of address a.
PeerOf(a) == [PerunAddress |-> a]

\* No channel connection being set up.
connIdle ==
    /\ gaddrs = <<>>
    /\ gown = "none"
    /\ gpc = "none"
    /\ gpeers = <<>>
    /\ gmap = <<>>
    /\ grecv = <<>>
    /\ gret = NoMsg

\* A client about to set up a channel for a participant list.
newConn ==
    /\ gaddrs \in PartsInputs
    /\ gown \in {Acc, "bob"}
    /\ gpc = "start"
    /\ gpeers = <<>>
    /\ gmap = <<>>
    /\ grecv = <<>>
    /\ gret = NoMsg

\* Client.getPeers(addrs) of the client with address own: peers[i] for the
\* addresses before idx (or all, if own is not in the list), peers[i-1] for
\* those after it.
getPeers(addrs, own) ==
    LET idx == IndexOfAddr(addrs, own)
        l   == IF idx # 0 THEN Len(addrs) - 1 ELSE Len(addrs)
        from(j) == CHOOSE i \in 1..Len(addrs) :
                      \/ (idx = 0 \/ i < idx) /\ i = j
                      \/ idx # 0 /\ i > idx /\ i - 1 = j
    IN  [j \in 1..l |-> PeerOf(addrs[from(j)])]

\* The last slot of the peer list that holds peer p.
LastSlot(peers, p) ==
    CHOOSE i \in 1..Len(peers) :
       peers[i] = p /\ \A k \in (i + 1)..Len(peers) : peers[k] # p

\* A mutant of newChannelConn: the local participant's index is not skipped.
newChannelConnNoSkip(peers, idx) ==
    [p \in {peers[i] : i \in 1..Len(peers)} |-> LastSlot(peers, p)]

\* newChannelConn(id, peers, idx): its peerIdx map.  The loop assigns slot
\* after slot, a later slot of the same peer overwriting an earlier one.
newChannelConn(peers, idx) ==
    [p \in {peers[i] : i \in 1..Len(peers)} |->
        LET i == LastSlot(peers, p) IN IF i >= idx THEN i + 1 ELSE i]

\* The client gets the peers of the participant list.
GetPeers ==
    /\ gpc = "start"
    /\ gpeers' = getPeers(gaddrs, gown)
    /\ gpc' = "peers"
    /\ UNCHANGED <<gaddrs, gown, gmap, grecv, gret, notConn>>

\* newChannel(acc, peers, params): NewStateMachine, which fails if the
\* account is no participant, and newChannelConn with the machine's index.
NewChannel ==
    /\ gpc = "peers"
    /\ IF IndexOfAddr(gaddrs, gown) = 0
       THEN gpc' = "error" /\ gmap' = gmap
       ELSE /\ gmap' = newChannelConn(gpeers, IndexOfAddr(gaddrs, gown))
            /\ gpc' = "conn"
    /\ UNCHANGED <<gaddrs, gown, gpeers, grecv, gret, notConn>>

\* msgChannelUpdate{ChannelUpdate{State, ActorIdx}, Sig}
msgChannelUpdate(state, actor, sig) ==
    [type |-> "ChannelUpdate", State |-> state, ActorIdx |-> actor, Sig |-> sig]

\* msgChannelUpdateRej{Reason, Alt, ActorIdx, Sig}
msgChannelUpdateRej(reason, alt, actor, sig) ==
    [type |-> "ChannelUpdateRej", Reason |-> reason, Alt |-> alt,
     ActorIdx |-> actor, Sig |-> sig]

\* The types that implement ChannelMsg.
ChannelMsgTypes == {"ChannelUpdate", "ChannelUpdateAcc", "ChannelUpdateRej"}

\* ChannelMsg.ID() of the three channel messages; Panic where it reads the
\* ID through a nil state.
ChannelMsgID(m) ==
    IF m.type = "ChannelUpdate"
    THEN IF m.State = Nil THEN Panic ELSE m.State.ID
    ELSE IF m.type = "ChannelUpdateAcc" THEN m.ChannelID
    ELSE IF m.Alt = Nil THEN Panic ELSE m.Alt.ID

\* A mutant of forThisChannel: every channel message passes.
forAnyChannel(id, m) == m.type \in ChannelMsgTypes

\* forThisChannel of newChannelConn(id, ..): the message is a ChannelMsg
\* and its ID() is id.
forThisChannel(id, m) ==
    IF m.type \notin ChannelMsgTypes THEN FALSE ELSE ChannelMsgID(m) = id

\* A state of channel id that a message carries.
WireState(id) ==
    [ID |-> id, Version |-> 1, App |-> AppDef,
     Allocation |-> CHOOSE a \in PlainAllocInputs : AllocValid(a), IsFinal |-> FALSE]

\* The messages a peer receives from the remote: the channel messages of
\* this channel and of another one, a rejection without alternative state,
\* and a proposal.
ConnMsgInputs ==
    UNION {{msgChannelUpdate(WireState(id), 1, Sign("bob", WireState(id))),
            msgChannelUpdateAcc(id, 1, Sign("bob", WireState(id))),
            msgChannelUpdateRej("no", WireState(id), 1, Sign("bob", WireState(id)))} :
           id \in {ChID, "otherid"}}
    \cup {msgChannelUpdateRej("no", Nil, 1, Malformed),
          [type |-> "ChannelProposal"]}

\* The k-th peer of the channel receives m and hands it to the subscribed
\* receiver if the receiver's predicate accepts it; a predicate that panics
\* ends the program.
PeerDispatch(k, m) ==
    /\ gpc = "conn"
    /\ k \in 1..Len(gpeers)
    /\ Len(grecv) < MaxQueued
    /\ IF m.type \in ChannelMsgTypes /\ ChannelMsgID(m) = Panic
       THEN gpc' = "panic" /\ grecv' = grecv
       ELSE /\ gpc' = gpc
            /\ grecv' = IF forThisChannel(ChID, m)
                        THEN Append(grecv, msgTuple(gpeers[k], m)) ELSE grecv
    /\ UNCHANGED <<gaddrs, gown, gpeers, gmap, gret, notConn>>

\* channelConn.recv with a message queued: the index of the peer and the
\* message.
ConnRecv ==
    /\ gpc = "conn"
    /\ grecv # <<>>
    /\ gret' = [idx |-> gmap[Head(grecv).Peer], msg |-> Head(grecv).Msg]
    /\ grecv' = Tail(grecv)
    /\ UNCHANGED <<gaddrs, gown, gpc, gpeers, gmap, notConn>>

ConnNext ==
    \/ GetPeers
    \/ NewChannel
    \/ \E k \in 1..MaxParts : \E m \in ConnMsgInputs : PeerDispatch(k, m)
    \/ ConnRecv

---------------------------------------------------------------------------
(* The wire encoding of the channel messages *)

\* wallet.SigLen of the backend, and the length of a channel.ID.
SigLen == 65
IDLen  == 32

\* The error of a Decode that finds too few bytes.
DecodeError == [error |-> "decode"]

\* An unsigned integer as w bytes, big-endian, and back.
RECURSIVE BigEndian(_, _)
BigEndian(n, w) ==
    IF w = 0 THEN <<>> ELSE Append(BigEndian(n \div 256, w - 1), n % 256)

RECURSIVE FromBigEndian(_)
FromBigEndian(bytes) ==
    IF bytes = <<>> THEN 0
    ELSE FromBigEndian(SubSeq(bytes, 1, Len(bytes) - 1)) * 256 + bytes[Len(bytes)]

\* Reading n bytes: the bytes and what is left, or DecodeError.
readBytes(bytes, n) ==
    IF Len(bytes) < n THEN DecodeError
    ELSE [msg |-> SubSeq(bytes, 1, n), rest |-> SubSeq(bytes, n + 1, Len(bytes))]

\* Reading an unsigned integer of w bytes.
readUint(bytes, w) ==
    LET r == readBytes(bytes, w)
    IN  IF r = DecodeError THEN r ELSE [msg |-> FromBigEndian(r.msg), rest |-> r.rest]

\* A channel.ID and an app address as bytes, and back.
IDBytes(id) == [i \in 1..IDLen |-> IF id = ChID THEN 1 ELSE 2]
IDOfBytes(bytes) == IF bytes[1] = 1 THEN ChID ELSE "otherid"
AppByte(app) == IF app = AppDef THEN 1 ELSE 2
AppOfByte(b) == IF b = 1 THEN AppDef ELSE "otherapp"

RECURSIVE Flatten(_)
Flatten(ss) == IF ss = <<>> THEN <<>> ELSE Head(ss) \o Flatten(Tail(ss))

\* Allocation.Encode: the number of participants, then every balance of
\* every participant; and Allocation.Decode.
encodeAlloc(alloc) ==
    BigEndian(Len(alloc.OfParts), 2)
    \o Flatten([i \in 1..Len(alloc.OfParts) |->
                  Flatten([a \in 1..NumAssets |-> BigEndian(alloc.OfParts[i][a], 8)])])

decodeAlloc(bytes) ==
    LET n == readUint(bytes, 2)
    IN  IF n = DecodeError THEN n
        ELSE LET body == readBytes(n.rest, n.msg * NumAssets * 8)
             IN  IF body = DecodeError THEN body
                 ELSE [msg |-> [OfParts |->
                                  [i \in 1..n.msg |->
                                     [a \in 1..NumAssets |->
                                        FromBigEndian(SubSeq(body.msg,
                                           ((i - 1) * NumAssets + a - 1) * 8 + 1,
                                           ((i - 1) * NumAssets + a) * 8))]],
                                Locked |-> <<>>],
                       rest |-> body.rest]

\* State.Encode: ID, Version, App, Allocation, IsFinal; and State.Decode.
encodeState(st) ==
    IDBytes(st.ID) \o BigEndian(st.Version, 8) \o <<AppByte(st.App)>>
    \o encodeAlloc(st.Allocation) \o <<IF st.IsFinal THEN 1 ELSE 0>>

decodeState(bytes) ==
    LET id == readBytes(bytes, IDLen)
    IN  IF id = DecodeError THEN id
        ELSE LET v == readUint(id.rest, 8)
             IN  IF v = DecodeError THEN v
                 ELSE LET app == readUint(v.rest, 1)
                      IN  IF app = DecodeError THEN app
                          ELSE LET al == decodeAlloc(app.rest)
                               IN  IF al = DecodeError THEN al
                                   ELSE LET f == readUint(al.rest, 1)
                                        IN  IF f = DecodeError THEN f
                                            ELSE [msg |-> [ID |-> IDOfBytes(id.msg),
                                                           Version |-> v.msg,
                                                           App |-> AppOfByte(app.msg),
                                                           Allocation |-> al.msg,
                                                           IsFinal |-> f.msg = 1],
                                                  rest |-> f.rest]

\* A string: its length, then its characters.
encodeString(str) == BigEndian(Len(str), 2) \o str

decodeString(bytes) ==
    LET n == readUint(bytes, 2)
    IN  IF n = DecodeError THEN n ELSE readBytes(n.rest, n.msg)

\* wallet.DecodeSig: a signature is read as SigLen bytes.
DecodeSig(bytes) == readBytes(bytes, SigLen)

\* msgChannelUpdate.Encode: State, ActorIdx, Sig.
encodeUpdate(m) == encodeState(m.State) \o BigEndian(m.ActorIdx, 2) \o m.Sig

\* msgChannelUpdate.Decode
decodeUpdate(bytes) ==
    LET st == decodeState(bytes)
    IN  IF st = DecodeError THEN st
        ELSE LET ai == readUint(st.rest, 2)
             IN  IF ai = DecodeError THEN ai
                 ELSE LET sig == DecodeSig(ai.rest)
                      IN  IF sig = DecodeError THEN sig
                          ELSE [msg |-> msgChannelUpdate(st.msg, ai.msg, sig.msg),
                                rest |-> sig.rest]

\* msgChannelUpdateAcc.Encode: ChannelID, Version, Sig.
encodeUpdateAcc(m) == IDBytes(m.ChannelID) \o BigEndian(m.Version, 8) \o m.Sig

\* A mutant of msgChannelUpdateAcc.Decode: the version is read as a uint16.
decodeUpdateAccShortVersion(bytes) ==
    LET id == readBytes(bytes, IDLen)
    IN  IF id = DecodeError THEN id
        ELSE LET v == readUint(id.rest, 2)
             IN  IF v = DecodeError THEN v
                 ELSE LET sig == DecodeSig(v.rest)
                      IN  IF sig = DecodeError THEN sig
                          ELSE [msg |-> msgChannelUpdateAcc(IDOfBytes(id.msg), v.msg,
                                                            sig.msg),
                                rest |-> sig.rest]

\* msgChannelUpdateAcc.Decode
decodeUpdateAcc(bytes) ==
    LET id == readBytes(bytes, IDLen)
    IN  IF id = DecodeError THEN id
        ELSE LET v == readUint(id.rest, 8)
             IN  IF v = DecodeError THEN v
                 ELSE LET sig == DecodeSig(v.rest)
                      IN  IF sig = DecodeError THEN sig
                          ELSE [msg |-> msgChannelUpdateAcc(IDOfBytes(id.msg), v.msg,
                                                            sig.msg),
                                rest |-> sig.rest]

\* msgChannelUpdateRej.Encode: Reason, Alt, ActorIdx, Sig.
encodeUpdateRej(m) ==
    encodeString(m.Reason) \o encodeState(m.Alt) \o BigEndian(m.ActorIdx, 2) \o m.Sig

\* msgChannelUpdateRej.Decode
decodeUpdateRej(bytes) ==
    LET rs == decodeString(bytes)
    IN  IF rs = DecodeError THEN rs
        ELSE LET st == decodeState(rs.rest)
             IN  IF st = DecodeError THEN st
                 ELSE LET ai == readUint(st.rest, 2)
                      IN  IF ai = DecodeError THEN ai
                          ELSE LET sig == DecodeSig(ai.rest)
                               IN  IF sig = DecodeError THEN sig
                                   ELSE [msg |-> msgChannelUpdateRej(rs.msg, st.msg,
                                                                     ai.msg, sig.msg),
                                         rest |-> sig.rest]

\* Encode of the message, and the decoder registered for its type.
EncodeMsg(m) ==
    IF m.type = "ChannelUpdate" THEN encodeUpdate(m)
    ELSE IF m.type = "ChannelUpdateAcc" THEN encodeUpdateAcc(m)
    ELSE encodeUpdateRej(m)

DecodeMsg(type, bytes) ==
    IF type = "ChannelUpdate" THEN decodeUpdate(bytes)
    ELSE IF type = "ChannelUpdateAcc" THEN decodeUpdateAcc(bytes)
    ELSE decodeUpdateRej(bytes)

\* The values the fields of a message take: signatures of the backend's
\* length, versions and indices of one and of more bytes, states of two
\* channels with every valid allocation.
WireSigInputs     == {[i \in 1..SigLen |-> b] : b \in {7, 8}}
WireVersionInputs == {0, 1, 258}
WireActorInputs   == {0, 1, 257}
WireReasonInputs  == {<<>>, <<110, 111>>}
WireStateInputs ==
    {[ID |-> id, Version |-> v, App |-> AppDef, Allocation |-> a, IsFinal |-> f] :
        id \in {ChID, "otherid"}, v \in WireVersionInputs,
        a \in {x \in PlainAllocInputs : AllocValid(x)}, f \in BOOLEAN}

WireMsgInputs ==
    {msgChannelUpdate(st, ai, sig) :
        st \in WireStateInputs, ai \in WireActorInputs, sig \in WireSigInputs}
    \cup {msgChannelUpdateAcc(id, v, sig) :
        id \in {ChID, "otherid"}, v \in WireVersionInputs, sig \in WireSigInputs}
    \cup {msgChannelUpdateRej(rs, st, ai, sig) :
        rs \in WireReasonInputs, st \in WireStateInputs, ai \in WireActorInputs,
        sig \in WireSigInputs}

codecIdle ==
    /\ wmsg = NoMsg
    /\ wbytes = <<>>
    /\ wout = NoMsg
    /\ wpc = "none"

\* A message about to be sent.
newCodec ==
    /\ wmsg \in WireMsgInputs
    /\ wbytes = <<>>
    /\ wout = NoMsg
    /\ wpc = "new"

\* The sender encodes the message.
WireEncode ==
    /\ wpc = "new"
    /\ wbytes' = EncodeMsg(wmsg)
    /\ wpc' = "encoded"
    /\ UNCHANGED <<wmsg, wout, notCodec>>

\* The receiver decodes the bytes with the decoder of the message's type.
WireDecode ==
    /\ wpc = "encoded"
    /\ wout' = DecodeMsg(wmsg.type, wbytes)
    /\ wpc' = "decoded"
    /\ UNCHANGED <<wmsg, wbytes, notCodec>>

CodecNext ==
    \/ WireEncode
    \/ WireDecode

---------------------------------------------------------------------------
(* The two participants of a channel *)

\* The participants, by their index in Parts, and the peer of each.
Duo == 1..N
Other(p) == IF p = 1 THEN 2 ELSE 1

\* A machine as a value: the fields of machine that the calls change.
MachineOf(ph, staging, current, prev) ==
    [phase |-> ph, stagingTX |-> staging, currentTX |-> current, prevTXs |-> prev]

\* The result of a call on machine m: the machine after it and its error.
Result(m, e) == [m |-> m, err |-> e]

\* machine.expect(tr) on m.
expectOf(m, tr) ==
    IF m.phase # tr[1] THEN PhaseTransitionError
    ELSE IF <<m.phase, tr[2]>> \notin validPhaseTransitions THEN PhaseTransitionError
    ELSE NoErr

\* machine.validTransition(to) on m.
validTransitionOf(m, to) ==
    IF to.ID # ChID THEN OtherError
    ELSE IF to.App # AppDef THEN OtherError
    ELSE IF m.currentTX.State = Nil THEN Panic
    ELSE IF m.currentTX.State.IsFinal THEN StateTransitionError
    ELSE IF m.currentTX.State.Version + 1 # to.Version THEN StateTransitionError
    ELSE IF ~AllocValid(to.Allocation) THEN StateTransitionError
    ELSE IF ~equalSum(m.currentTX.State.Allocation, to.Allocation)
    THEN StateTransitionError
    ELSE NoErr

\* StateMachine.Update(to, actor) on m, with an app that accepts.
UpdateOf(m, to) ==
    IF m.phase \notin {Acting, Signing} THEN Result(m, PhaseTransitionError)
    ELSE IF validTransitionOf(m, to) # NoErr THEN Result(m, validTransitionOf(m, to))
    ELSE Result([m EXCEPT !.stagingTX = [State |-> to, Sigs |-> [i \in 1..N |-> Nil]],
                          !.phase = Signing], NoErr)

\* machine.Sig() on the machine m of participant p, whose account signs.
SigOf(m, p) ==
    IF m.phase \notin signingPhases THEN Result(m, PhaseTransitionError)
    ELSE IF m.stagingTX.Sigs[p] = Nil
    THEN Result([m EXCEPT !.stagingTX.Sigs[p] = Sign(Parts[p], m.stagingTX.State)], NoErr)
    ELSE Result(m, NoErr)

\* machine.AddSig(idx, sig) on m.
AddSigOf(m, idx, sig) ==
    IF m.phase \notin signingPhases THEN Result(m, PhaseTransitionError)
    ELSE IF idx \notin 1..Len(m.stagingTX.Sigs) THEN Result(m, Panic)
    ELSE IF m.stagingTX.Sigs[idx] # Nil THEN Result(m, SigPresentError)
    ELSE IF Verify(Parts[idx], m.stagingTX.State, sig) = "err" THEN Result(m, OtherError)
    ELSE IF Verify(Parts[idx], m.stagingTX.State, sig) = "bad"
    THEN Result(m, InvalidSigError)
    ELSE Result([m EXCEPT !.stagingTX.Sigs[idx] = sig], NoErr)

\* machine.enableStaged(expected) on m.
enableStagedOf(m, expected) ==
    IF expectOf(m, expected) # NoErr THEN Result(m, expectOf(m, expected))
    ELSE IF m.stagingTX.State = Nil THEN Result(m, Panic)
    ELSE IF (expected[2] = Final) # m.stagingTX.State.IsFinal
    THEN Result(m, PhaseTransitionError)
    ELSE IF \E i \in 1..Len(m.stagingTX.Sigs) : m.stagingTX.Sigs[i] = Nil
    THEN Result(m, PhaseTransitionError)
    ELSE Result(MachineOf(expected[2], EmptyTx, m.stagingTX,
                          Append(m.prevTXs, m.currentTX)), NoErr)

\* A mutant of recvIdx: the peer is given the local participant's index.
recvIdxOwn(p) == p

\* The index channelConn.recv of participant p gives for its one peer:
\* peerIdx as newChannelConn(id, getPeers(parts), p) fills it.
recvIdx(p) ==
    newChannelConn(getPeers(Parts, Parts[p]), p)[PeerOf(Parts[Other(p)])]

NoGo == [st |-> "none", msg |-> NoMsg]

duoIdle ==
    /\ dmach = [p \in Duo |-> MachineOf(InitActing, EmptyTx, EmptyTx, <<>>)]
    /\ dpc = [p \in Duo |-> "none"]
    /\ dres = [p \in Duo |-> "none"]
    /\ dcall = [p \in Duo |-> Nil]
    /\ dsend = [p \in Duo |-> NoGo]
    /\ dwire = [p \in Duo |-> <<>>]
    /\ dq = [p \in Duo |-> <<>>]

\* Both clients have called Channel.init with the allocation of the
\* proposal they agreed on, and are about to exchange signatures.
newExchange ==
    /\ \E initBals \in {a \in PlainAllocInputs : AllocValid(a)} :
          dmach = [p \in Duo |->
                     MachineOf(InitSigning,
                               [State |-> newState(initBals),
                                Sigs |-> [i \in 1..N |-> Nil]],
                               EmptyTx, <<>>)]
    /\ dpc = [p \in Duo |-> "sig"]
    /\ dres = [p \in Duo |-> "none"]
    /\ dcall = [p \in Duo |-> Nil]
    /\ dsend = [p \in Duo |-> NoGo]
    /\ dwire = [p \in Duo |-> <<>>]
    /\ dq = [p \in Duo |-> <<>>]

\* The return of participant p's call with error e.
DuoReturn(p, e) ==
    /\ dpc' = [dpc EXCEPT ![p] = "returned"]
    /\ dres' = [dres EXCEPT ![p] = e]

\* initExchangeSigsAndEnable of p: c.machine.Sig() and the start of the
\* goroutine that sends the msgChannelUpdateAcc of version 0.
ExchangeSig(p) ==
    /\ dpc[p] = "sig"
    /\ LET r == SigOf(dmach[p], p)
       IN  /\ dmach' = [dmach EXCEPT ![p] = r.m]
           /\ IF r.err # NoErr
              THEN DuoReturn(p, r.err) /\ dsend' = dsend
              ELSE /\ dpc' = [dpc EXCEPT ![p] = "recv"]
                   /\ dres' = dres
                   /\ dsend' = [dsend EXCEPT ![p] =
                         [st |-> "pending",
                          msg |-> msgChannelUpdateAcc(ChID, 0, r.m.stagingTX.Sigs[p])]]
    /\ UNCHANGED <<dcall, dwire, dq, notDuo>>

\* The goroutine's c.conn.send over a link that delivers: the message is
\* written to the link.
ExchangeSend(p) ==
    /\ dsend[p].st = "pending"
    /\ dwire' = [dwire EXCEPT ![Other(p)] = Append(@, dsend[p].msg)]
    /\ dsend' = [dsend EXCEPT ![p].st = "ok"]
    /\ UNCHANGED <<dmach, dpc, dres, dcall, dq, notDuo>>

\* The peer object of p reads the next message from the link and puts it
\* into the receiver of the channel, whose predicate accepts it.
DuoDeliver(p) ==
    /\ dwire[p] # <<>>
    /\ forThisChannel(ChID, Head(dwire[p]))
    /\ dwire' = [dwire EXCEPT ![p] = Tail(@)]
    /\ dq' = [dq EXCEPT ![p] = Append(@, Head(dwire[p]))]
    /\ UNCHANGED <<dmach, dpc, dres, dcall, dsend, notDuo>>

\* initExchangeSigsAndEnable of p: c.conn.recv with a context that does not
\* expire, the checks of the message, and c.machine.AddSig(pidx, acc.Sig).
ExchangeRecv(p) ==
    /\ dpc[p] = "recv"
    /\ dq[p] # <<>>
    /\ dq' = [dq EXCEPT ![p] = Tail(@)]
    /\ LET m == Head(dq[p])
           r == AddSigOf(dmach[p], recvIdx(p), m.Sig)
       IN  IF m.type # "ChannelUpdateAcc" \/ m.Version # 0
           THEN DuoReturn(p, OtherError) /\ dmach' = dmach
           ELSE /\ dmach' = [dmach EXCEPT ![p] = r.m]
                /\ IF r.err # NoErr THEN DuoReturn(p, r.err)
                   ELSE dpc' = [dpc EXCEPT ![p] = "enable"] /\ dres' = dres
    /\ UNCHANGED <<dcall, dsend, dwire, notDuo>>

\* initExchangeSigsAndEnable of p: c.machine.EnableInit().
ExchangeEnable(p) ==
    /\ dpc[p] = "enable"
    /\ LET r == enableStagedOf(dmach[p], <<InitSigning, Funding>>)
       IN  /\ dmach' = [dmach EXCEPT ![p] = r.m]
           /\ IF r.err # NoErr THEN DuoReturn(p, r.err)
              ELSE dpc' = [dpc EXCEPT ![p] = "wait"] /\ dres' = dres
    /\ UNCHANGED <<dcall, dsend, dwire, dq, notDuo>>

\* initExchangeSigsAndEnable of p: the result of the goroutine is received
\* and returned.
ExchangeReturn(p) ==
    /\ dpc[p] = "wait"
    /\ dsend[p].st = "ok"
    /\ DuoReturn(p, NoErr)
    /\ dsend' = [dsend EXCEPT ![p].st = "returned"]
    /\ UNCHANGED <<dmach, dcall, dwire, dq, notDuo>>

\* Both channels are funded: the machines are in Acting with the initial
\* state, signed by both, as current state, and no call is made yet.
newDuoUpdate ==
    /\ \E initBals \in {a \in PlainAllocInputs : AllocValid(a)} :
          dmach = [p \in Duo |->
                     MachineOf(Acting, EmptyTx,
                               [State |-> newState(initBals),
                                Sigs |-> [i \in 1..N |->
                                            Sign(Parts[i], newState(initBals))]],
                               <<EmptyTx>>)]
    /\ dpc = [p \in Duo |-> "idle"]
    /\ dres = [p \in Duo |-> "none"]
    /\ dcall = [p \in Duo |-> Nil]
    /\ dsend = [p \in Duo |-> NoGo]
    /\ dwire = [p \in Duo |-> <<>>]
    /\ dq = [p \in Duo |-> <<>>]

\* The ChannelUpdates participant p calls Channel.Update with: every state
\* of the next version that is not final, with p as actor, and one with
\* the peer as actor.
DuoUpdateInputs(p) ==
    LET nexts == {st \in PlainStateInputs :
                     /\ st.Version = dmach[p].currentTX.State.Version + 1
                     /\ ~st.IsFinal}
    IN  {[State |-> st, ActorIdx |-> p] : st \in nexts}
        \cup {[State |-> [dmach[p].currentTX.State EXCEPT !.Version = @ + 1],
               ActorIdx |-> Other(p)]}

\* Channel.Update(ctx, up) of p up to the Lock: validTwoPartyUpdate.
DuoUpdateCall(p, up) ==
    /\ dpc[p] = "idle"
    /\ IF validTwoPartyUpdate(up, p) # NoErr
       THEN DuoReturn(p, validTwoPartyUpdate(up, p)) /\ dcall' = dcall
       ELSE /\ dpc' = [dpc EXCEPT ![p] = "machine"]
            /\ dcall' = [dcall EXCEPT ![p] = up]
            /\ dres' = dres
    /\ UNCHANGED <<dmach, dsend, dwire, dq, notDuo>>

\* Channel.Update of p: machMtx.Lock(), which p's one caller gets at once,
\* and c.machine.Update(up.State, up.ActorIdx).
DuoUpdateMachine(p) ==
    /\ dpc[p] = "machine"
    /\ LET r == UpdateOf(dmach[p], dcall[p].State)
       IN  /\ dmach' = [dmach EXCEPT ![p] = r.m]
           /\ IF r.err # NoErr THEN DuoReturn(p, r.err)
              ELSE dpc' = [dpc EXCEPT ![p] = "sig"] /\ dres' = dres
    /\ UNCHANGED <<dcall, dsend, dwire, dq, notDuo>>

\* Channel.Update of p: c.machine.Sig().
DuoUpdateSig(p) ==
    /\ dpc[p] = "sig"
    /\ LET r == SigOf(dmach[p], p)
       IN  /\ dmach' = [dmach EXCEPT ![p] = r.m]
           /\ IF r.err # NoErr THEN DuoReturn(p, r.err)
              ELSE dpc' = [dpc EXCEPT ![p] = "send"] /\ dres' = dres
    /\ UNCHANGED <<dcall, dsend, dwire, dq, notDuo>>

\* Channel.Update of p: c.conn.send of the msgChannelUpdateAcc, the return
\* of its error, and the deferred Unlock.
DuoUpdateSend(p) ==
    /\ dpc[p] = "send"
    /\ dwire' = [dwire EXCEPT ![Other(p)] =
                    Append(@, msgChannelUpdateAcc(ChID, dcall[p].State.Version,
                                                  dmach[p].stagingTX.Sigs[p]))]
    /\ DuoReturn(p, NoErr)
    /\ UNCHANGED <<dmach, dcall, dsend, dq, notDuo>>

DuoUpdateNext ==
    \/ \E p \in Duo : \E up \in DuoUpdateInputs(p) : DuoUpdateCall(p, up)
    \/ \E p \in Duo : DuoUpdateMachine(p)
    \/ \E p \in Duo : DuoUpdateSig(p)
    \/ \E p \in Duo : DuoUpdateSend(p)
    \/ \E p \in Duo : DuoDeliver(p)

ExchangeNext ==
    \/ \E p \in Duo : ExchangeSig(p)
    \/ \E p \in Duo : ExchangeSend(p)
    \/ \E p \in Duo : DuoDeliver(p)
    \/ \E p \in Duo : ExchangeRecv(p)
    \/ \E p \in Duo : ExchangeEnable(p)
    \/ \E p \in Duo : ExchangeReturn(p)

---------------------------------------------------------------------------
(* Specification of the machine *)

\* The verdicts of the app on a proposed state; the app is asked only about
\* a state that passed validTransition.
AppVerdicts(to) ==
    IF phase = Acting /\ validTransition(to) = NoErr THEN BOOLEAN ELSE {TRUE}

MachineNext ==
    \/ \E initBals \in InitInputs : Init(initBals) /\ UNCHANGED channelVars
    \/ \E to \in UpdateInputs : \E appOk \in AppVerdicts(to) :
          Update(to, appOk) /\ UNCHANGED channelVars
    \/ \E signOk \in BOOLEAN : Sig(signOk) /\ UNCHANGED channelVars
    \/ \E idx \in 1..(N + 1), sig \in AddSigInputs :
          AddSig(idx, sig) /\ UNCHANGED channelVars
    \/ DiscardUpdate /\ UNCHANGED channelVars
    \/ EnableInit /\ UNCHANGED channelVars
    \/ EnableUpdate /\ UNCHANGED channelVars
    \/ EnableFinal /\ UNCHANGED channelVars
    \/ SetFunded /\ UNCHANGED channelVars
    \/ SetSettled /\ UNCHANGED channelVars

Next == MachineNext

\* The machine with subscribers: every operation, and Subscribe.
SubsNext ==
    \/ \E initBals \in InitInputsFrom(PlainAllocInputs) :
          Init(initBals) /\ UNCHANGED channelVars
    \/ \E to \in UpdateInputsFrom(PlainStateInputs) :
          \E appOk \in AppVerdicts(to) : Update(to, appOk) /\ UNCHANGED channelVars
    \/ \E signOk \in BOOLEAN : Sig(signOk) /\ UNCHANGED channelVars
    \/ \E idx \in 1..(N + 1), sig \in AddSigInputs :
          AddSig(idx, sig) /\ UNCHANGED channelVars
    \/ DiscardUpdate /\ UNCHANGED channelVars
    \/ EnableInit /\ UNCHANGED channelVars
    \/ EnableUpdate /\ UNCHANGED channelVars
    \/ EnableFinal /\ UNCHANGED channelVars
    \/ SetFunded /\ UNCHANGED channelVars
    \/ SetSettled /\ UNCHANGED channelVars
    \/ \E p \in SubPhases, who \in Whos, sink \in Sinks :
          Subscribe(p, who, sink) /\ UNCHANGED channelVars

NextSubs == SubsNext

\* The machine with subscribers that take their notifications one by one.
\* The machine has one owner: its next call comes when the last returned.
NotifyNext ==
    \/ \E initBals \in InitInputsFrom(NotifyAllocInputs) :
          Delivered /\ Init(initBals) /\ UNCHANGED channelVars
    \/ \E to \in UpdateInputsFrom(NotifyStateInputs) :
          \E appOk \in AppVerdicts(to) :
             Delivered /\ Update(to, appOk) /\ UNCHANGED channelVars
    \/ \E signOk \in BOOLEAN : Delivered /\ Sig(signOk) /\ UNCHANGED channelVars
    \/ \E idx \in 1..(N + 1), sig \in AddSigInputs :
          Delivered /\ AddSig(idx, sig) /\ UNCHANGED channelVars
    \/ Delivered /\ DiscardUpdate /\ UNCHANGED channelVars
    \/ Delivered /\ EnableInit /\ UNCHANGED channelVars
    \/ Delivered /\ EnableUpdate /\ UNCHANGED channelVars
    \/ Delivered /\ EnableFinal /\ UNCHANGED channelVars
    \/ Delivered /\ SetFunded /\ UNCHANGED channelVars
    \/ Delivered /\ SetSettled /\ UNCHANGED channelVars
    \/ \E p \in SubPhases, who \in NotifyWhos, sink \in Sinks :
          Delivered /\ Subscribe(p, who, sink) /\ UNCHANGED channelVars
    \/ \E n \in notes : Take(n) /\ UNCHANGED channelVars

NextNotify == NotifyNext

SpecInit ==
    newMachine /\ responderIdle /\ channelIdle /\ registryIdle /\ receiverIdle
    /\ mutexIdle /\ connIdle /\ clientIdle /\ codecIdle /\ duoIdle

Spec == SpecInit /\ [][Next]_vars

SpecSubs == SpecInit /\ [][NextSubs]_vars

SpecNotify == SpecInit /\ [][NextNotify]_vars

---------------------------------------------------------------------------
(* Specification of the responders *)

NextResponder == ResponderNext

ResponderInit ==
    /\ newMachine
    /\ channelIdle
    /\ registryIdle
    /\ receiverIdle
    /\ mutexIdle /\ connIdle /\ clientIdle /\ codecIdle /\ duoIdle
    /\ \E k \in {"proposal", "update"} : newResponder(k)

SpecResponder == ResponderInit /\ [][NextResponder]_vars

\* The go scheduler runs every goroutine that can take a step: the protocol
\* side, and a user call that is past the flag.
ResponderFairness ==
    /\ WF_vars(handleChannelProposalStart)
    /\ WF_vars(\E c \in Callers : HandOver(c))
    /\ WF_vars(\E sendOk \in BOOLEAN : handleChannelProposal(sendOk))
    /\ WF_vars(\E sendOk \in BOOLEAN : handleUpdate(sendOk))
    /\ WF_vars(\E c \in Callers : ReturnErr(c))

SpecResponderFair == SpecResponder /\ ResponderFairness

---------------------------------------------------------------------------
(* Specification of the channel controller *)

NextChannel == ChannelNext

ChannelInit ==
    newMachine /\ responderIdle /\ newChannel /\ registryIdle /\ receiverIdle
    /\ mutexIdle /\ connIdle /\ clientIdle /\ codecIdle /\ duoIdle

SpecChannel == ChannelInit /\ [][NextChannel]_vars

\* The goroutines of the initial exchange are scheduled: the sender's
\* c.conn.send returns, and the caller goes on while it can.
ChannelFairness ==
    /\ WF_vars(\E sendOk \in BOOLEAN : initExchangeSend(sendOk))
    /\ WF_vars(\E m \in InitReplyInputs(stagingTX.State) : initExchangeRecv(m))
    /\ WF_vars(initExchangeEnable)
    /\ WF_vars(initExchangeReturn)

SpecChannelFair == SpecChannel /\ ChannelFairness

---------------------------------------------------------------------------
(* Specification of the peer registry *)

NextRegistry == RegistryNext

RegistryInit ==
    newMachine /\ responderIdle /\ channelIdle /\ NewRegistry /\ receiverIdle
    /\ mutexIdle /\ connIdle /\ clientIdle /\ codecIdle /\ duoIdle

SpecRegistry == RegistryInit /\ [][NextRegistry]_vars

---------------------------------------------------------------------------
(* Specification of the receiver *)

NextReceiver == ReceiverNext

ReceiverInit ==
    newMachine /\ responderIdle /\ channelIdle /\ registryIdle /\ NewReceiver
    /\ mutexIdle /\ connIdle /\ clientIdle /\ codecIdle /\ duoIdle

SpecReceiver == ReceiverInit /\ [][NextReceiver]_vars

\* The go scheduler runs the consumer whenever it can take a step: it calls
\* Next again, and a select with a ready case proceeds.
ReceiverFairness ==
    /\ WF_vars(\E ctx \in CtxInputs : NextSelect1(ctx))
    /\ WF_vars(NextSelect2)

SpecReceiverFair == SpecReceiver /\ ReceiverFairness

\* The go scheduler also runs a producer whose select in Put has a ready
\* case.
ProducerFairness == \A p \in Senders : WF_vars(Put(p))

SpecReceiverAllFair == SpecReceiverFair /\ ProducerFairness

---------------------------------------------------------------------------
(* Specification of the selectable mutex *)

NextMutex == MutexNext

MutexInit ==
    newMachine /\ responderIdle /\ channelIdle /\ registryIdle /\ receiverIdle
    /\ NewMutex /\ connIdle /\ clientIdle /\ codecIdle /\ duoIdle

SpecMutex == MutexInit /\ [][NextMutex]_vars

---------------------------------------------------------------------------
(* Specification of the peers of a channel connection *)

NextConn == ConnNext

ConnInit ==
    newMachine /\ responderIdle /\ channelIdle /\ registryIdle /\ receiverIdle
    /\ mutexIdle /\ newConn /\ clientIdle /\ codecIdle /\ duoIdle

SpecConn == ConnInit /\ [][NextConn]_vars

---------------------------------------------------------------------------
(* Specification of the client *)

NextClient == ClientNext

ClientInit ==
    newMachine /\ responderIdle /\ channelIdle /\ NewRegistry /\ receiverIdle
    /\ mutexIdle /\ connIdle /\ NewClient /\ codecIdle /\ duoIdle

SpecClient == ClientInit /\ [][NextClient]_vars

---------------------------------------------------------------------------
(* Specification of the wire encoding *)

NextCodec == CodecNext

CodecInit ==
    newMachine /\ responderIdle /\ channelIdle /\ registryIdle /\ receiverIdle
    /\ mutexIdle /\ connIdle /\ clientIdle /\ newCodec /\ duoIdle

SpecCodec == CodecInit /\ [][NextCodec]_vars

---------------------------------------------------------------------------
(* Specification of the two participants *)

NextExchange == ExchangeNext

ExchangeInit ==
    newMachine /\ responderIdle /\ channelIdle /\ registryIdle /\ receiverIdle
    /\ mutexIdle /\ connIdle /\ clientIdle /\ codecIdle /\ newExchange

SpecExchange == ExchangeInit /\ [][NextExchange]_vars

\* Both calls and both sending goroutines are scheduled.
ExchangeFairness ==
    \A p \in Duo :
       /\ WF_vars(ExchangeSig(p))
       /\ WF_vars(ExchangeSend(p))
       /\ WF_vars(DuoDeliver(p))
       /\ WF_vars(ExchangeRecv(p))
       /\ WF_vars(ExchangeEnable(p))
       /\ WF_vars(ExchangeReturn(p))

SpecExchangeFair == SpecExchange /\ ExchangeFairness

NextDuoUpdate == DuoUpdateNext

DuoUpdateInit ==
    newMachine /\ responderIdle /\ channelIdle /\ registryIdle /\ receiverIdle
    /\ mutexIdle /\ connIdle /\ clientIdle /\ codecIdle /\ newDuoUpdate

SpecDuoUpdate == DuoUpdateInit /\ [][NextDuoUpdate]_vars

\* Both participants call Update, and their calls and peers are scheduled.
DuoUpdateFairness ==
    \A p \in Duo :
       /\ WF_vars(\E up \in DuoUpdateInputs(p) : DuoUpdateCall(p, up))
       /\ WF_vars(DuoUpdateMachine(p))
       /\ WF_vars(DuoUpdateSig(p))
       /\ WF_vars(DuoUpdateSend(p))
       /\ WF_vars(DuoDeliver(p))

SpecDuoUpdateFair == SpecDuoUpdate /\ DuoUpdateFairness

---------------------------------------------------------------------------
(* Properties of the machine *)

\* The fields of the machine that a failed call must leave alone.
machineState == <<phase, stagingTX, currentTX, prevTXs>>

\* The last call was a successful promotion.
Promoted(r) == r.op = "Enable" /\ r.err = NoErr

\* Every signature slot of tx is filled with a signature of the slot's
\* participant over tx's state.
FullySigned(tx) ==
    /\ tx.State # Nil
    /\ Len(tx.Sigs) = N
    /\ \A i \in 1..N : tx.Sigs[i] # Nil /\ Verify(Parts[i], tx.State, tx.Sigs[i]) = "ok"

\* C1: the phase is always one of the seven phases, and every change of the
\* phase, by whatever operation, is one of the seven legal transitions.
C1_LegalPhaseTransitions ==
    /\ phase \in Phases
    /\ [][/\ phase' \in Phases
          /\ phase' # phase => <<phase, phase'>> \in validPhaseTransitions]_vars

\* A machine that went through the whole life cycle, with one update.
C1_Witness == phase = Settled /\ Len(prevTXs) >= 3

\* C2: in every phase that follows a promotion, every signature slot of
\* currentTX holds a signature that verifies for the slot's participant over
\* currentTX's state, whatever signatures AddSig was offered before.
C2_CurrentFullySigned ==
    phase \in {Funding, Acting, Signing, Final, Settled} => FullySigned(currentTX)

\* An update was promoted.
C2_Witness ==
    /\ phase = Acting
    /\ ret = EnableRet(<<Signing, Acting>>, NoErr)
    /\ currentTX.State.Version = 1

\* C3: the version of currentTX never decreases; EnableInit installs version
\* 0 and every later promotion installs the replaced version plus one; only
\* a successful promotion changes currentTX.
C3_VersionByOne ==
    [][IF Promoted(ret')
       THEN IF ret'.tr = <<InitSigning, Funding>>
            THEN currentTX.State = Nil /\ currentTX'.State.Version = 0
            ELSE /\ currentTX.State # Nil
                 /\ currentTX'.State.Version = currentTX.State.Version + 1
       ELSE currentTX' = currentTX]_vars

\* Two updates were promoted after the initial state.
C3_Witness == currentTX.State # Nil /\ currentTX.State.Version = 2

\* The states promoted so far.
PromotedStates ==
    ({prevTXs[i].State : i \in 1..Len(prevTXs)} \cup {currentTX.State}) \ {Nil}

\* C4: every state staged or promoted has a valid allocation, and all of
\* them have the same sum per asset over participants and locked funds.
C4_FundsPreserved ==
    LET held == PromotedStates \cup ({stagingTX.State} \ {Nil})
    IN  \A s \in held :
          /\ AllocValid(s.Allocation)
          /\ \A t \in held : \A a \in 1..NumAssets :
                AssetSum(s.Allocation, a) = AssetSum(t.Allocation, a)

\* An update that moved funds, with locked funds in play, was promoted.
C4_Witness ==
    /\ phase = Acting
    /\ currentTX.State.Version >= 1
    /\ currentTX.State.Allocation.Locked # <<>>
    /\ \E i \in 1..Len(prevTXs) :
          /\ prevTXs[i].State # Nil
          /\ prevTXs[i].State.Allocation # currentTX.State.Allocation

\* C5: the staging transaction is empty outside the signing phases, and in a
\* signing phase it has a state and exactly N signature slots.
C5_StagingOnlyWhileSigning ==
    /\ phase \notin signingPhases => stagingTX = EmptyTx
    /\ phase \in signingPhases => stagingTX.State # Nil /\ Len(stagingTX.Sigs) = N

\* A staged update was discarded: staging is empty again in Acting.
C5_Witness == phase = Acting /\ ret = Ok("DiscardUpdate") /\ stagingTX = EmptyTx

\* The phases the call recorded in r may be made in.
SourcePhases(r) ==
    CASE r.op = "Enable"        -> {r.tr[1]}
      [] r.op = "DiscardUpdate" -> {Signing}
      [] r.op = "SetFunded"     -> {Funding}
      [] r.op = "SetSettled"    -> {Final}
      [] r.op \in {"Sig", "AddSig"} -> signingPhases
      [] OTHER -> Phases

\* C6: an Enable call, DiscardUpdate, SetFunded, SetSettled, Sig or AddSig made
\* in a phase other than its source phase returns a phase-transition error,
\* changes nothing in the machine and notifies no subscriber.
C6_WrongPhaseFails ==
    [][phase \notin SourcePhases(ret') =>
          /\ ret'.err = PhaseTransitionError
          /\ UNCHANGED machineState
          /\ notes' = {}]_vars

\* EnableUpdate was called in Acting while a sink is subscribed.
C6_Witness ==
    /\ phase = Acting
    /\ ret = EnableRet(<<Signing, Acting>>, PhaseTransitionError)
    /\ subs # {}

\* C7: in a signing phase AddSig(idx, sig) fails and changes nothing when
\* slot idx is filled or sig does not verify for Parts[idx] over the staged
\* state; otherwise it succeeds and sets slot idx, and nothing else, to sig.
C7_AddSig ==
    [][\A idx \in 1..N, sig \in AddSigInputs :
          (phase \in signingPhases /\ AddSig(idx, sig)) =>
             IF \/ stagingTX.Sigs[idx] # Nil
                \/ Verify(Parts[idx], stagingTX.State, sig) # "ok"
             THEN /\ ret'.err \notin {NoErr, Panic}
                  /\ UNCHANGED machineState
             ELSE /\ ret'.err = NoErr
                  /\ stagingTX' = [stagingTX EXCEPT !.Sigs[idx] = sig]
                  /\ UNCHANGED <<phase, currentTX, prevTXs>>]_vars

\* A second signature for a filled slot was turned down.
C7_Witness ==
    /\ phase = Signing
    /\ ret = [op |-> "AddSig", err |-> SigPresentError]
    /\ \E i \in 1..N : stagingTX.Sigs[i] # Nil

\* C8: an Enable call in its source phase fails and changes nothing when a
\* signature slot of the staging transaction is empty, or when it is
\* EnableFinal and the staged state is not final.
C8_EnableNeedsAllSigs ==
    [][(/\ ret'.op = "Enable"
        /\ phase = ret'.tr[1]
        /\ stagingTX.State # Nil
        /\ \/ \E i \in 1..Len(stagingTX.Sigs) : stagingTX.Sigs[i] = Nil
           \/ ret'.tr[2] = Final /\ ~stagingTX.State.IsFinal) =>
          /\ ret'.err # NoErr
          /\ UNCHANGED machineState]_vars

\* EnableUpdate failed with one of two signatures collected, which is kept.
C8_Witness ==
    /\ phase = Signing
    /\ ret = EnableRet(<<Signing, Acting>>, PhaseTransitionError)
    /\ \E i, j \in 1..N : stagingTX.Sigs[i] # Nil /\ stagingTX.Sigs[j] = Nil

\* C9: prevTXs starts empty; a successful promotion appends the transaction
\* it replaces, makes the staged one current and clears staging; no other
\* call changes prevTXs.
C9_PrevTXsAppendOnly ==
    /\ prevTXs = <<>>
    /\ [][IF Promoted(ret')
          THEN /\ prevTXs' = Append(prevTXs, currentTX)
               /\ currentTX' = stagingTX
               /\ stagingTX' = EmptyTx
          ELSE prevTXs' = prevTXs]_vars

\* Three promotions: prevTXs lists the empty transaction, version 0, version 1.
C9_Witness ==
    /\ Len(prevTXs) = 3
    /\ prevTXs[1] = EmptyTx
    /\ prevTXs[2].State.Version = 0
    /\ prevTXs[3].State.Version = 1
    /\ currentTX.State.Version = 2

---------------------------------------------------------------------------
(* Properties of the responders *)

\* The calls that got past the flag.
Proceeded == {c \in Callers : cpc[c] \in {"send", "wait", "done"}}

\* C10: across Accept and Reject at most one call on a responder gets past
\* the flag; every other call made panics, and only the call that got past
\* ever hands a value to the protocol side.
C10_UseOnce ==
    /\ Cardinality(Proceeded) <= 1
    /\ \A c \in Callers : cpc[c] \notin {"idle", "panicked"} => c \in Proceeded
    /\ Len(handed) <= 1
    /\ \A i \in 1..Len(handed) : handed[i].from \in Proceeded
    /\ called <=> \E c \in Callers : cpc[c] # "idle"

\* One call was served and returned, another one panicked.
C10_Witness ==
    /\ \E c \in Callers : cpc[c] = "done"
    /\ \E c \in Callers : cpc[c] = "panicked"
    /\ Len(handed) = 1

\* The replies sent so far answer the one value the protocol side took: an
\* acceptance for Accept, a rejection with the user's reason for Reject,
\* under the SessID of the proposal.
RepliesAnswer ==
    /\ Len(wire) <= 1
    /\ \A i \in 1..Len(wire) :
          /\ proposal.valid
          /\ Len(handed) = 1
          /\ wire[i].SessID = proposal.SessID
          /\ LET c == handed[1].from
             IN  /\ cwhat[c] \in {"accept", "reject"}
                 /\ cwhat[c] = "accept" =>
                       wire[i].type = "ChannelProposalAcc"
                 /\ cwhat[c] = "reject" =>
                       /\ wire[i].type = "ChannelProposalRej"
                       /\ wire[i].Reason = creason[c]

\* One result per served call: only the call whose value was taken gets a
\* result, nothing is left over once it has it, and the result is nil
\* exactly if the reply went out.
OneResult ==
    /\ Len(errq) + Cardinality({c \in Callers : cres[c] # "none"}) <= 1
    /\ \A c \in Callers :
          /\ cres[c] # "none" <=> cpc[c] = "done"
          /\ cres[c] # "none" =>
                /\ Len(handed) = 1 /\ handed[1].from = c
                /\ cres[c] = NoErr <=> Len(wire) = 1

\* C11: a proposal gets at most one reply, the acceptance or the rejection
\* with the user's reason under the proposal's SessID (none if it is
\* invalid); the call that was taken gets exactly one result, the send error
\* or nil; and a call that got past the flag is served and returns, whatever
\* other calls panic meanwhile.
C11_OneReplyOneResult ==
    /\ [](kind = "proposal" => RepliesAnswer /\ OneResult)
    /\ \A c \in Callers :
          (kind = "proposal" /\ cpc[c] = "send") ~> (cpc[c] = "done")

\* A Reject was served, its rejection with the user's reason went out and it
\* returned nil, while a second call panicked.
C11_Witness ==
    /\ kind = "proposal"
    /\ \E c \in Callers :
          /\ cpc[c] = "done" /\ cres[c] = NoErr /\ cwhat[c] = "reject"
          /\ wire = <<[type |-> "ChannelProposalRej",
                       SessID |-> proposal.SessID, Reason |-> creason[c]]>>
    /\ \E c \in Callers : cpc[c] = "panicked"

---------------------------------------------------------------------------
(* Properties of the channel controller *)

\* Channel.Update of c on this channel returns in this step, having staged
\* its state.
ReturnsStaged(c) ==
    /\ ucall[c].ch = ThisChan
    /\ upc[c] \in {"sig", "discard", "send"}
    /\ upc'[c] = "done"

\* C12: when Channel.Update on a valid next state returns without error, the
\* proposer's machine has the peer's signature, has promoted the proposed
\* state and is back in Acting.
C12_UpdateReturnsPromoted ==
    [][\A c \in Updaters :
          ReturnsStaged(c) /\ ures'[c] = NoErr =>
             /\ phase' = Acting
             /\ currentTX'.State = ucall[c].up.State
             /\ FullySigned(currentTX')]_vars

\* C13: when Channel.Update returns an error after it has staged the new
\* state, the machine is rolled back: Acting, staging empty, currentTX as
\* it was.
C13_ErrorRollsBack ==
    [][\A c \in Updaters :
          ReturnsStaged(c) /\ ures'[c] # NoErr =>
             /\ phase' = Acting
             /\ stagingTX' = EmptyTx
             /\ currentTX' = currentTX]_vars

\* A reply the initial exchange must refuse while state is staged.
BadInitReply(m, state) ==
    \/ m.type # "ChannelUpdateAcc"
    \/ m.Version # 0
    \/ Verify(Parts[peerIdx(1)], state, m.Sig) # "ok"

\* C14: in the initial exchange the machine adds the peer's signature on
\* the staged version-0 state, promotes it and moves InitSigning->Funding;
\* a reply of another type, of another version or with a signature that
\* does not verify ends the exchange with an error, the machine still in
\* InitSigning and nothing promoted; the funder's signal moves it to Acting.
C14_InitExchange ==
    [][/\ \A m \in InitReplyInputs(stagingTX.State) :
             initExchangeRecv(m) =>
                IF BadInitReply(m, stagingTX.State)
                THEN /\ kpc' = "closed"
                     /\ kres' \notin {NoErr, "none"}
                     /\ phase' = InitSigning
                     /\ stagingTX' = stagingTX
                     /\ currentTX' = EmptyTx /\ prevTXs' = <<>>
                ELSE /\ kpc' = "enable"
                     /\ phase' = InitSigning
                     /\ stagingTX.State.Version = 0
                     /\ stagingTX'.Sigs[peerIdx(1)] =
                           Sign(Parts[peerIdx(1)], stagingTX.State)
       /\ kpc = "enable" /\ kpc' # "enable" =>
             /\ kpc' = "wait"
             /\ phase = InitSigning /\ phase' = Funding
             /\ currentTX' = stagingTX
             /\ currentTX'.State.Version = 0
             /\ FullySigned(currentTX')
       /\ kpc = "funding" /\ kpc' # "funding" =>
             kpc' = "open" /\ phase' = Acting]_vars

\* The exchange went through, the initial signature went out and the
\* funder signalled: the channel is open on the signed version-0 state.
C14_Witness ==
    /\ kpc = "open"
    /\ phase = Acting
    /\ currentTX.State # Nil
    /\ currentTX.State.Version = 0
    /\ FullySigned(currentTX)
    /\ \E i \in 1..Len(sent) :
          sent[i] = msgChannelUpdateAcc(ChID, 0, Sign(Acc, currentTX.State))

\* The goroutines between Lock and the deferred Unlock on channel ch.
Inside(ch) ==
    {c \in Updaters : upc[c] \in {"update", "sig", "discard", "send"}
                      /\ ucall[c].ch = ch}
    \cup (IF ch = ThisChan /\ kpc = "locked" THEN {"client"} ELSE {})

\* C15: at most one Update (or init) call is between Lock and return on a
\* channel, and it is the holder of that channel's mutex; a mutex is held
\* only by a call that has not returned yet; and a call waiting for the
\* mutex of its channel waits only for a holder on that same channel.
C15_MachMtx ==
    /\ \A ch \in Chans :
          /\ Cardinality(Inside(ch)) <= 1
          /\ \A c \in Inside(ch) : machMtx[ch] = c
          /\ machMtx[ch] # "free" => machMtx[ch] \in Inside(ch)
    /\ \A c \in Updaters :
          upc[c] = "lock" /\ ~ENABLED UpdateLock(c) => Inside(ucall[c].ch) # {}

\* Two Update calls hold the mutexes of the two channels at the same time,
\* each past its machine.Update.
C15_Witness ==
    /\ machMtx[ThisChan] \in Updaters
    /\ machMtx[OtherChan] \in Updaters
    /\ \A c \in Updaters : upc[c] \in {"sig", "send"}

---------------------------------------------------------------------------
(* Properties of the peer registry *)

\* The places of the list that hold a peer of address a.
PlacesOf(a) == {k \in 1..Len(rpeers) : pobj[rpeers[k]].addr = a}

\* No peer of address a was closed other than a placeholder by its failed dial.
NeverClosed(a) ==
    \A n \in PeerNames :
       pobj[n] # Nil /\ pobj[n].addr = a /\ pobj[n].closed => dials[n].st = "error"

\* C16: the list never holds two peers of one address (nor one peer twice);
\* and once a Get for an address and an inbound connection of that address
\* are both through, with no peer of it closed by its owner and the
\* registry open, the registry has exactly one peer of that address.
C16_OnePeerPerAddress ==
    /\ \A a \in Addrs : Cardinality(PlacesOf(a)) <= 1
    /\ \A j, k \in 1..Len(rpeers) : j # k => rpeers[j] # rpeers[k]
    /\ \A a \in Addrs, g \in Getters, i \in Inbounds :
          /\ gets[g].pc = "done" /\ gets[g].addr = a
          /\ ins[i].st \in {"added", "filled", "discarded"} /\ ins[i].auth = a
          /\ \A n \in PeerNames : pobj[n] # Nil /\ pobj[n].addr = a =>
                                     dials[n].st # "dialing"
          /\ NeverClosed(a)
          /\ ~rclosed
          => Has(a) /\ Cardinality(PlacesOf(a)) = 1

\* A Get dialed P while a connection from P came in and filled its
\* placeholder; both are through and the registry has the one peer.
C16_Witness ==
    \E g \in Getters, i \in Inbounds :
       /\ gets[g].pc = "done" /\ gets[g].err = NoErr /\ gets[g].peer = g
       /\ ins[i].st = "filled" /\ ins[i].peer = g
       /\ dials[g].st = "ok"
       /\ NumPeers = 1 /\ Has(gets[g].addr)

\* The peers that are not closed among those the Get calls hold.
LivePeerOf(g) ==
    gets[g].peer # "none" /\ pobj[gets[g].peer] # Nil /\ ~pobj[gets[g].peer].closed

\* C17: a Get for an address with a live peer takes that peer, without a
\* dial and without a new peer, and returns it without error; the Get
\* calls for one address hold the same live peer object; and at most one
\* dial per address is outstanding.
C17_GetSamePeer ==
    /\ [](\A g, h \in Getters :
             gets[g].addr = gets[h].addr /\ LivePeerOf(g) /\ LivePeerOf(h)
                => gets[g].peer = gets[h].peer)
    /\ [](\A a \in Addrs :
             Cardinality({n \in PeerNames : /\ pobj[n] # Nil
                                            /\ pobj[n].addr = a
                                            /\ dials[n].st = "dialing"}) <= 1)
    /\ [][\A g \in Getters, a \in Addrs :
             Get(g, a) /\ Has(a) /\ exists(find(a)) =>
                /\ gets'[g].peer = find(a)
                /\ dials' = dials /\ rpeers' = rpeers /\ pobj' = pobj]_vars
    /\ [][\A g \in Getters :
             /\ gets[g].pc = "wait" /\ gets'[g].pc = "done"
             /\ exists(gets[g].peer) /\ ~pobj[gets[g].peer].closed
             => gets'[g].err = NoErr /\ gets'[g].peer = gets[g].peer]_vars

\* Two Get calls for one address returned the same peer, which only one of
\* them dialed.
C17_Witness ==
    /\ \A g \in Getters : gets[g].pc = "done" /\ gets[g].err = NoErr
    /\ gets["g1"].peer = gets["g2"].peer
    /\ gets["g1"].peer \in Getters
    /\ Cardinality({n \in PeerNames : dials[n].st # "none"}) = 1

\* C18: registering an authenticated connection for an address leaves a
\* live peer of that address, its connection and the list as they are;
\* gives a placeholder of that address the connection; and otherwise adds
\* one new peer, for which the subscription hook is invoked once.
C18_Register ==
    /\ [](\A n \in PeerNames : hooks[n] = IF pobj[n] = Nil THEN 0 ELSE 1)
    /\ [][\A i \in Inbounds : \A conn \in InboundInputs(i) :
             setupConn(i, conn) /\ conn.auth # "fail" =>
                LET a == conn.auth
                    n == find(a)
                IN  IF Has(a) /\ exists(n)
                    THEN /\ pobj' = pobj /\ rpeers' = rpeers /\ hooks' = hooks
                         /\ ins'[i].st = "discarded"
                    ELSE IF Has(a)
                    THEN /\ pobj' = [pobj EXCEPT ![n].conn = conn]
                         /\ rpeers' = rpeers /\ hooks' = hooks
                    ELSE /\ Len(rpeers') = Len(rpeers) + 1
                         /\ \A k \in 1..Len(rpeers) : rpeers'[k] = rpeers[k]
                         /\ LET new == rpeers'[Len(rpeers')]
                            IN  /\ pobj[new] = Nil
                                /\ pobj'[new] = [addr |-> a, conn |-> conn,
                                                 closed |-> FALSE]
                                /\ hooks' = [hooks EXCEPT ![new] = 1]]_vars

\* One inbound connection filled a placeholder; the other was discarded for
\* the peer that by then had a connection.
C18_Witness ==
    /\ \E i \in Inbounds : ins[i].st = "filled"
    /\ \E i \in Inbounds :
          /\ ins[i].st = "discarded"
          /\ pobj[ins[i].peer].conn.for # i
          /\ ~pobj[ins[i].peer].closed

\* C19: Close on an open registry closes the listener it listens on and
\* every peer of the list, and returns an error if closing a peer or the
\* dialer fails; Listen on a closed registry closes the listener at once.
C19_Close ==
    /\ [](rclosed => /\ \A l \in Listeners : rlisten[l] # "listening"
                     /\ rpeers = <<>>)
    /\ [][\A failing \in CloseInputs :
             Close(failing) /\ ~rclosed =>
                /\ rclosed'
                /\ \A l \in Listeners : rlisten[l] = "listening" => rlisten'[l] = "closed"
                /\ \A n \in InRegistry : pobj'[n].closed
                /\ failing # {} \/ rdialer = "closed" => rret' # NoErr]_vars
    /\ [][\A l \in Listeners :
             Listen(l) /\ rclosed => rlisten'[l] = "closed"]_vars

\* The registry was closed while it listened and held a peer with a
\* connection, and returned an error.
C19_Witness ==
    /\ rclosed
    /\ rret = OtherError
    /\ \E l \in Listeners : rlisten[l] = "closed"
    /\ \E n \in PeerNames : pobj[n] # Nil /\ pobj[n].conn # Nil /\ pobj[n].closed
    /\ rdialer = "closed"

\* C20: every connection a peer has was authenticated as the peer's
\* address; a dial that fails, whose address exchange fails or whose remote
\* side is another address leaves the peer's connection as it is, and
\* returns an error if the peer has none and nil if it has one.
C20_AuthenticatedBeforeInstalled ==
    /\ [](\A n \in PeerNames :
             pobj[n] # Nil /\ pobj[n].conn # Nil => pobj[n].conn.auth = pobj[n].addr)
    /\ [][\A n \in PeerNames : \A conn \in DialInputs(n) :
             /\ authenticatedDial(n, conn)
             /\ (conn = Nil \/ conn.auth # pobj[n].addr)
             => /\ pobj'[n].conn = pobj[n].conn
                /\ dials'[n].st = IF exists(n) THEN "ok" ELSE "error"]_vars

\* A dial reached an imposter and returned nil, the peer keeping the
\* inbound connection it had; another dial's address exchange failed and
\* it returned an error.
C20_Witness ==
    /\ \E n \in PeerNames :
          /\ dials[n].st = "ok"
          /\ dials[n].got # Nil
          /\ dials[n].got.auth \in Addrs \ {pobj[n].addr}
          /\ pobj[n].conn.for \in Inbounds
    /\ \E n \in PeerNames :
          /\ dials[n].st = "error"
          /\ dials[n].got # Nil
          /\ dials[n].got.auth = "fail"
          /\ pobj[n].conn = Nil

\* The positions of Channel.Update from the Lock on.
PastValidation == {"lock", "update", "sig", "discard", "send"}

\* C27: a Channel.Update with an update of another actor than the local
\* participant, or of a state with sub-allocations, returns an error at
\* once: the machine mutex, the machine's phase and transactions and the
\* messages sent are as before, and no call gets to the Lock with such an
\* update.
C27_InvalidUpdateRejected ==
    /\ [](\A c \in Updaters :
             upc[c] \in PastValidation /\ ucall[c].ch = ThisChan =>
                /\ ucall[c].up.ActorIdx = Idx
                /\ ucall[c].up.State.Allocation.Locked = <<>>)
    /\ [][\A c \in Updaters : \A up \in ChannelUpdateInputs :
             /\ UpdateCall(c, ThisChan, up)
             /\ up.ActorIdx # Idx \/ up.State.Allocation.Locked # <<>>
             => /\ upc'[c] = "done"
                /\ ures'[c] \notin {NoErr, "none"}
                /\ machMtx' = machMtx
                /\ <<phase, stagingTX, currentTX, prevTXs>>' =
                      <<phase, stagingTX, currentTX, prevTXs>>
                /\ sent' = sent]_vars

\* On the open channel one Update was rejected for its actor and one for
\* its sub-allocation.
C27_Witness ==
    /\ phase = Acting
    /\ \E c \in Updaters : ures[c] = ActorError /\ upc[c] = "done"
    /\ \E c \in Updaters : ures[c] = LockedError /\ upc[c] = "done"

\* C28: when Receiver.Next returns (nil, nil) to channelConn.recv in the
\* initial exchange, because the context is done or the receiver closed,
\* the exchange returns an error and does not panic.
C28_RecvErrorNoPanic ==
    [][initExchangeRecv(NoMsg) => kres' # Panic /\ kres' # NoErr]_vars

\* No transaction has been promoted yet.
NothingPromoted == currentTX = EmptyTx /\ prevTXs = <<>>

\* C29 as stated: the phase is InitActing if and only if no transaction has
\* been promoted yet.
C29_InitActingIffNothingPromoted == phase = InitActing <=> NothingPromoted

\* C29, amended: no transaction has been promoted yet if and only if the
\* phase is InitActing or InitSigning; in InitActing nothing is staged
\* either, in InitSigning the initial state is.
C29_InitPhasesIffNothingPromoted ==
    /\ NothingPromoted <=> phase \in {InitActing, InitSigning}
    /\ phase = InitActing => stagingTX = EmptyTx
    /\ phase = InitSigning => stagingTX.State # Nil

\* The initial state is staged and signed by the local participant, and
\* nothing has been promoted.
C29_Witness ==
    /\ phase = InitSigning
    /\ stagingTX.State # Nil
    /\ stagingTX.Sigs[Idx] # Nil
    /\ NothingPromoted

C34_SigMemoized ==
    /\ [][\A signOk \in BOOLEAN :
             Sig(signOk) /\ phase \in signingPhases =>
                IF stagingTX.Sigs[Idx] # Nil
                THEN /\ ret'.err = NoErr
                     /\ ret'.sig = stagingTX.Sigs[Idx]
                     /\ stagingTX' = stagingTX
                ELSE IF ret'.err = NoErr
                THEN /\ signOk
                     /\ ret'.sig = Sign(Acc, stagingTX.State)
                     /\ stagingTX' = [stagingTX EXCEPT !.Sigs[Idx] = ret'.sig]
                ELSE /\ ~signOk
                     /\ stagingTX' = stagingTX]_vars
    /\ [](\A i \in 1..Len(stagingTX.Sigs) :
             stagingTX.Sigs[i] # Nil =>
                stagingTX.Sigs[i] = Sign(Parts[i], stagingTX.State))
    /\ [][(\/ stagingTX'.State # stagingTX.State
            \/ \E i \in 1..Len(stagingTX.Sigs) :
                  /\ stagingTX.Sigs[i] # Nil
                  /\ i \notin 1..Len(stagingTX'.Sigs) \/ stagingTX'.Sigs[i] # stagingTX.Sigs[i])
           => \A i \in 1..Len(stagingTX'.Sigs) : stagingTX'.Sigs[i] = Nil]_vars

\* Sig returned the account's signature over the staged state of version
\* 2, after the signatures of two earlier staging transactions were
\* promoted.
C34_Witness ==
    /\ phase = Signing
    /\ ret = [op |-> "Sig", err |-> NoErr, sig |-> Sign(Acc, stagingTX.State)]
    /\ stagingTX.State.Version = 2
    /\ stagingTX.Sigs[Idx] = ret.sig
    /\ currentTX.Sigs[Idx] = Sign(Acc, currentTX.State)
    /\ Len(prevTXs) >= 2

\* C35: in Settled every machine operation fails and leaves phase,
\* currentTX, stagingTX and prevTXs as they are; in Final every operation
\* but SetSettled does, and SetSettled changes the phase only; a final
\* current transaction is never replaced.
C35_Terminal ==
    /\ [][phase = Settled =>
             /\ ret'.err # NoErr
             /\ UNCHANGED <<phase, currentTX, stagingTX, prevTXs>>]_vars
    /\ [][phase = Final =>
             \/ /\ ret'.err # NoErr
                /\ UNCHANGED <<phase, currentTX, stagingTX, prevTXs>>
             \/ /\ ret' = Ok("SetSettled")
                /\ phase' = Settled
                /\ UNCHANGED <<currentTX, stagingTX, prevTXs>>]_vars
    /\ [][currentTX.State # Nil /\ currentTX.State.IsFinal =>
             currentTX' = currentTX]_vars

\* The machine is settled, and a promotion tried afterwards has failed.
C35_Witness ==
    /\ phase = Settled
    /\ ret.op = "Enable" /\ ret.err = PhaseTransitionError
    /\ currentTX.State.IsFinal
    /\ stagingTX = EmptyTx

\* C36: a promotion succeeds only if its target phase is Final exactly
\* when the staged state is final, so EnableInit and EnableUpdate fail on a
\* final staged state and EnableFinal fails on one that is not final; the
\* current state is final in Final and Settled, and not final in Funding,
\* Acting and Signing.
C36_FinalityMatchesPhase ==
    /\ [][ret'.op = "Enable" /\ stagingTX.State # Nil
             /\ (ret'.tr[2] = Final) # stagingTX.State.IsFinal =>
                /\ ret'.err # NoErr
                /\ UNCHANGED <<phase, currentTX, stagingTX, prevTXs>>]_vars
    /\ [][currentTX' # currentTX =>
             /\ ret'.op = "Enable" /\ ret'.err = NoErr
             /\ phase' = ret'.tr[2]
             /\ (phase' = Final) = currentTX'.State.IsFinal]_vars
    /\ [](phase \in {Final, Settled} => currentTX.State.IsFinal)
    /\ [](phase \in {Funding, Acting, Signing} => ~currentTX.State.IsFinal)

\* EnableUpdate has failed on a fully signed final staged state, and
\* nothing was promoted.
C36_Witness ==
    /\ phase = Signing
    /\ ret = EnableRet(<<Signing, Acting>>, PhaseTransitionError)
    /\ stagingTX.State.IsFinal
    /\ \A i \in 1..N : stagingTX.Sigs[i] # Nil
    /\ ~currentTX.State.IsFinal

\* C37: the goroutine that initExchangeSigsAndEnable starts to send the
\* initial signature terminates: whichever way the call returns, the
\* result of the send is eventually received from the goroutine.
C37_SenderTerminates ==
    xsend.st = "pending" ~> xsend.st = "returned"

---------------------------------------------------------------------------
(* Properties of the receiver *)

\* C21: Next returns a queued pair or (nil, nil), never a pair with only one
\* of peer and message nil; it returns (nil, nil) at once when the context
\* is done or the receiver closed at the call, whatever is queued; and
\* while it waits on an empty queue it returns only once the context is
\* done or the receiver closed, then with (nil, nil).
C21_NextPairOrNil ==
    /\ [](nret \in {NoRet, NilPair} \/ (nret.Peer # NilPeer /\ nret.Msg # Nil))
    /\ [](npc = "wait" /\ (nctx = "done" \/ rcvClosed) => ENABLED NextSelect2)
    /\ [][\A ctx \in CtxInputs :
             NextSelect1(ctx) /\ (ctx = "done" \/ rcvClosed) =>
                nret' = NilPair /\ npc' = "idle" /\ msgs' = msgs]_vars
    /\ [][NextSelect2 =>
             \/ nret' = NilPair /\ (nctx = "done" \/ rcvClosed) /\ msgs' = msgs
             \/ msgs # <<>> /\ nret' = Head(msgs)]_vars
    /\ [][NextSelect2 /\ msgs = <<>> =>
             nret' = NilPair /\ (nctx = "done" \/ rcvClosed)]_vars

\* Next returned (nil, nil) on an open receiver with messages queued, after
\* an earlier call returned a pair.
C21_Witness ==
    /\ nret = NilPair
    /\ msgs # <<>>
    /\ ~rcvClosed
    /\ lastTaken["p1"] >= 1

\* The numbers of the messages of p in the queue, in queue order.
RECURSIVE QueuedOf(_, _)
QueuedOf(q, p) ==
    IF q = <<>> THEN <<>>
    ELSE IF Head(q).Peer = p THEN <<Head(q).Msg.no>> \o QueuedOf(Tail(q), p)
    ELSE QueuedOf(Tail(q), p)

\* How many messages of p a Put has returned for.
PutDone(p) == nput[p] - (IF ppc[p] = "put" THEN 1 ELSE 0)

\* C22: the queue never holds more than receiverBufferSize messages; while
\* the receiver is open the queue holds, of every peer, exactly the
\* messages its Puts returned for and that Next has not returned yet, so
\* none is dropped, overwritten or returned twice; a Put returns on an open
\* receiver only by queueing its message, which it cannot on a full queue;
\* and while a peer has a message queued on an open receiver, Next returns
\* its next message (the number of the last one returned, which only moves
\* by one, moves on) unless the receiver is closed or a Next call's context
\* is done.
C22_BoundedNoLoss ==
    /\ [](Len(msgs) <= receiverBufferSize)
    /\ [](~rcvClosed =>
             \A p \in Senders :
                QueuedOf(msgs, p) =
                   [k \in 1..(PutDone(p) - lastTaken[p]) |-> lastTaken[p] + k])
    /\ [](\A p \in Senders :
             ppc[p] = "put" /\ Len(msgs) = receiverBufferSize /\ ~rcvClosed
                => ~ENABLED Put(p))
    /\ [][\A p \in Senders :
             Put(p) /\ ~rcvClosed =>
                /\ Len(msgs) < receiverBufferSize
                /\ msgs' = Append(msgs, msgTuple(p, Msg(nput[p])))]_vars
    /\ [][\A p \in Senders :
             ~rcvClosed /\ lastTaken'[p] # lastTaken[p] =>
                /\ lastTaken'[p] = lastTaken[p] + 1
                /\ nret' = msgTuple(p, Msg(lastTaken'[p]))]_vars
    /\ \A p \in Senders : \A odd \in {0, 1} :
          (~rcvClosed /\ lastTaken[p] < PutDone(p) /\ lastTaken[p] % 2 = odd)
             ~> \/ lastTaken[p] % 2 # odd
                \/ rcvClosed \/ nret = NilPair \/ nctx = "done"

\* The queue is full on an open receiver, a Put is blocked on it, and Next
\* has returned messages before.
C22_Witness ==
    /\ Len(msgs) = receiverBufferSize
    /\ ~rcvClosed
    /\ \E p \in Senders : ppc[p] = "put"
    /\ \E p \in Senders : lastTaken[p] >= 1

\* C23: the messages of one peer are queued and returned in the order of
\* its Put calls: in the queue their numbers increase and follow the last
\* one returned, and Next returns the oldest queued message.
C23_WireOrder ==
    /\ [](\A i, j \in 1..Len(msgs) :
             i < j /\ msgs[i].Peer = msgs[j].Peer =>
                msgs[i].Msg.no < msgs[j].Msg.no)
    /\ [](\A i \in 1..Len(msgs) : msgs[i].Msg.no > lastTaken[msgs[i].Peer])
    /\ [][\A p \in Senders :
             lastTaken'[p] # lastTaken[p] =>
                /\ lastTaken'[p] > lastTaken[p]
                /\ nret' = msgTuple(p, Msg(lastTaken'[p]))
                /\ \A i \in 1..Len(msgs') :
                      msgs'[i].Peer = p => msgs'[i].Msg.no > lastTaken'[p]]_vars

\* Next has returned two messages of one peer and one of the other, with
\* messages of both still queued.
C23_Witness ==
    /\ lastTaken["p1"] >= 2
    /\ lastTaken["p2"] >= 1
    /\ \E i \in 1..Len(msgs) : msgs[i].Peer = "p1"

\* A Next call returns in this step.
NextReturns ==
    /\ NextSelect2 \/ \E ctx \in CtxInputs : NextSelect1(ctx)
    /\ npc' = "idle"

\* A Next call that begins on a closed receiver returns (nil, nil).
NextAfterCloseIsNil ==
    [][\A ctx \in CtxInputs : rcvClosed /\ NextSelect1(ctx) => nret' = NilPair]_vars

\* On a closed receiver every Put in progress returns, and so does the Next
\* call in progress.
CloseUnblocks ==
    /\ \A p \in Senders : (rcvClosed /\ ppc[p] = "put") ~> ppc[p] = "idle"
    /\ (rcvClosed /\ npc = "wait") ~> npc = "idle"

\* C40: once the receiver is closed, no Next call returns a message,
\* whatever is queued and whatever the context; every Put in progress
\* returns, also on a full queue; and the Next call in progress returns.
C40_ClosedReceiver ==
    /\ [][rcvClosed /\ NextReturns => nret' = NilPair]_vars
    /\ CloseUnblocks

---------------------------------------------------------------------------
(* Properties of the selectable mutex *)

\* The mutex is locked.
IsLocked == locked = "full"

\* C24: the mutex is locked exactly while a caller's Lock or TryLock has
\* filled it and no Unlock has emptied it since; a Lock returns and a
\* TryLock returns true only on a mutex that is not locked, and makes its
\* caller the holder; and Unlock on a mutex that is not locked, a mutex
\* never used included, is fatal and leaves it as it is.
C24_MutualExclusion ==
    /\ [](IsLocked <=> holder # "none")
    /\ [][\A c \in Lockers :
             \/ MutexLock(c)
             \/ /\ (\E ctx \in TryLockInputs : MutexTryLock(c, ctx))
                      \/ MutexTryLockSelect(c)
                /\ mpc'[c] = "idle" /\ mres'[c] = "true"
             => ~IsLocked /\ holder = "none" /\ holder' = c /\ IsLocked']_vars
    /\ [][holder' # holder /\ holder' # "none" => holder = "none"]_vars
    /\ [][\A c \in Lockers : \A read \in UnlockReads(c) :
             MutexUnlock(c, read) /\ ~IsLocked =>
                mres'[c] = "fatal" /\ locked' = locked /\ holder' = holder]_vars
    /\ [][Fatal => UNCHANGED mutexVars]_vars

\* One caller holds the mutex, a TryLock of another returned false, and a
\* third waits in TryLock.
C24_Witness ==
    /\ holder = "m1" /\ mres["m1"] = "locked"
    /\ mres["m2"] = "false"
    /\ mpc["m3"] = "try"

\* C25: TryLock(nil) never blocks, and returns true exactly when the mutex
\* is not locked, which it then is; TryLock(ctx) with a done context
\* returns false; one with a live context waits, returns true only by
\* acquiring the mutex, and can return false once the context is done; and
\* a TryLock that returns false leaves the mutex locked or free as it was,
\* with the holder it had.
C25_TryLock ==
    /\ [](\A c \in Lockers :
             mpc[c] = "idle" /\ ~Fatal => ENABLED MutexTryLock(c, "nil"))
    /\ [](\A c \in Lockers :
             mpc[c] = "try" /\ mctx[c] = "done" /\ ~Fatal =>
                ENABLED (MutexTryLockSelect(c) /\ mres'[c] = "false"))
    /\ [][\A c \in Lockers :
             MutexTryLock(c, "nil") =>
                /\ mpc'[c] = "idle"
                /\ mres'[c] = IF IsLocked THEN "false" ELSE "true"
                /\ mres'[c] = "true" => IsLocked' /\ holder' = c]_vars
    /\ [][\A c \in Lockers :
             MutexTryLock(c, "done") => mpc'[c] = "idle" /\ mres'[c] = "false"]_vars
    /\ [][\A c \in Lockers :
             MutexTryLock(c, "live") =>
                /\ mpc'[c] = "try" /\ mres'[c] = "none"
                /\ IsLocked' = IsLocked /\ holder' = holder]_vars
    /\ [][\A c \in Lockers :
             MutexTryLockSelect(c) =>
                \/ mres'[c] = "true" /\ ~IsLocked /\ IsLocked' /\ holder' = c
                \/ mres'[c] = "false" /\ mctx[c] = "done"]_vars
    /\ [][\A c \in Lockers :
             /\ (\E ctx \in TryLockInputs : MutexTryLock(c, ctx))
                   \/ MutexTryLockSelect(c)
             /\ mres'[c] = "false"
             => IsLocked' = IsLocked /\ holder' = holder]_vars

\* A TryLock returned false on a mutex nobody else has touched and that is
\* free: its context was done.
C25_Witness ==
    \E c \in Lockers :
       /\ mres[c] = "false"
       /\ locked = "empty"
       /\ \A d \in Lockers \ {c} : mres[d] = "none" /\ mpc[d] = "idle"

---------------------------------------------------------------------------
(* Properties of the peers of a channel connection *)

\* No address twice in the list.
Distinct(addrs) ==
    \A i, j \in 1..Len(addrs) : i # j => addrs[i] # addrs[j]

\* The peers of the addresses of the list other than own, in list order.
RECURSIVE OthersOf(_, _)
OthersOf(addrs, own) ==
    IF addrs = <<>> THEN <<>>
    ELSE IF Head(addrs) = own THEN OthersOf(Tail(addrs), own)
    ELSE <<PeerOf(Head(addrs))>> \o OthersOf(Tail(addrs), own)

---------------------------------------------------------------------------
(* Properties of the client *)

\* C31: the first Client.Close closes the client, with the listeners it
\* listens on, and the registry; a second Client.Close returns an error and
\* leaves the client and the registry as they are; a second Registry.Close
\* returns an error and leaves the registry as it is.
C31_DoubleClose ==
    /\ [][\A failing \in CloseInputs :
             ClientClose(failing) /\ ~cclosed =>
                /\ cclosed' /\ rclosed'
                /\ \A l \in ClientListeners : clisten'[l] # "listening"
                /\ cret' = NoErr <=> rret' = NoErr]_vars
    /\ [][\A failing \in CloseInputs :
             ClientClose(failing) /\ cclosed =>
                /\ cret' # NoErr
                /\ UNCHANGED <<cclosed, clisten, registryVars>>]_vars
    /\ [][\A failing \in CloseInputs :
             Close(failing) /\ rclosed =>
                /\ rret' # NoErr
                /\ UNCHANGED <<rpeers, pobj, rclosed, rlisten, rdialer>>]_vars
    /\ [](cclosed => rclosed)

\* The client was closed without error, closing a listener and a peer, and
\* closed again: the second Close returned an error.
C31_Witness ==
    /\ cclosed /\ rclosed
    /\ cret = OtherError
    /\ rret = NoErr
    /\ \E l \in ClientListeners : clisten[l] = "closed"
    /\ \E n \in PeerNames : pobj[n] # Nil /\ pobj[n].conn # Nil /\ pobj[n].closed

\* C32: every message in the receiver of the channel's connection, and
\* every message recv returned, is an update, an update acceptance or an
\* update rejection that carries the channel's ID; a message of another
\* channel or of another type that a peer received is in neither.
C32_OnlyThisChannel ==
    LET mine(m) ==
           \/ m.type = "ChannelUpdate" /\ m.State.ID = ChID
           \/ m.type = "ChannelUpdateAcc" /\ m.ChannelID = ChID
           \/ m.type = "ChannelUpdateRej" /\ m.Alt.ID = ChID
    IN  /\ \A i \in 1..Len(grecv) : mine(grecv[i].Msg)
        /\ gret # NoMsg => mine(gret.msg)

\* recv returned a rejection for this channel from the peer of index 2.
C32_Witness ==
    /\ gret # NoMsg
    /\ gret.msg.type = "ChannelUpdateRej"
    /\ gret.idx = 2
    /\ grecv = <<>>

---------------------------------------------------------------------------
(* Properties of the wire encoding *)

\* C33: Decode of the bytes that Encode wrote for a ChannelUpdate, a
\* ChannelUpdateAcc or a ChannelUpdateRej reads all of them and yields a
\* message equal to the encoded one in every field.
C33_EncodeDecode ==
    wpc = "decoded" => wout = [msg |-> wmsg, rest |-> <<>>]

\* A rejection with a reason, a final alternative state of a version of
\* two bytes and an actor index of two bytes was encoded and decoded.
C33_Witness ==
    /\ wpc = "decoded"
    /\ wmsg.type = "ChannelUpdateRej"
    /\ wout.msg.Reason # <<>>
    /\ wout.msg.Alt.IsFinal /\ wout.msg.Alt.Version > 255
    /\ wout.msg.ActorIdx > 255

---------------------------------------------------------------------------
(* Properties of the two participants *)

\* C38: when both participants run the initial exchange of signatures over
\* links that deliver and with contexts that do not expire, both calls
\* return; a call that has returned has returned no error with its machine
\* in Funding and the initial state, signed by both, as current state; and
\* while a call waits to receive, its own signature is sent or can be sent
\* without the peer receiving first.
C38_ExchangeCompletes ==
    /\ <>(\A p \in Duo : dpc[p] = "returned")
    /\ [](\A p \in Duo :
             dpc[p] = "returned" =>
                /\ dres[p] = NoErr
                /\ dmach[p].phase = Funding
                /\ \A i \in 1..N :
                      dmach[p].currentTX.Sigs[i]
                         = Sign(Parts[i], dmach[p].currentTX.State))
    /\ [](\A p \in Duo :
             dpc[p] = "recv" => dsend[p].st = "ok" \/ ENABLED ExchangeSend(p))
    /\ []((\A p \in Duo : dpc[p] = "returned") =>
             dmach[1].currentTX = dmach[2].currentTX)

\* Both calls have returned and both machines are in Funding.
C38_Witness ==
    /\ \A p \in Duo : dpc[p] = "returned" /\ dres[p] = NoErr
    /\ \A p \in Duo : dmach[p].phase = Funding
    /\ \A p \in Duo : dsend[p].st = "returned" /\ dq[p] = <<>> /\ dwire[p] = <<>>

\* C39: when both participants call Channel.Update at the same time, both
\* calls return, and once both have returned both machines are in Acting
\* with equal current transactions, of which at most one was promoted by
\* these calls.
C39_ConcurrentUpdates ==
    /\ <>(\A p \in Duo : dpc[p] = "returned")
    /\ []((\A p \in Duo : dpc[p] = "returned") =>
             /\ \A p \in Duo : dmach[p].phase = Acting
             /\ dmach[1].currentTX = dmach[2].currentTX
             /\ \A p \in Duo : Len(dmach[p].prevTXs) <= 2)

====
